---- MODULE Spec2Model ----
(***************************************************************************)
(* Verification model of the SwagFlip copilot server (serverPRODV32.py):   *)
(* the SQLite ledger (offer_instances, buy_fills, lots, realized_trades,   *)
(* recommendations), the offer reconciler sync_offers_and_fills, the       *)
(* recommendation tracker, the /suggestion priority engine and the         *)
(* profit-tracking sub-ledger (pt_flips, pt_transactions).                 *)
(***************************************************************************)
EXTENDS Integers, Sequences, FiniteSets, TLC

VARIABLES
    now,                \* int(time.time()) as read by the handlers
    offer_instances,    \* table offer_instances, offer_id = index
    buy_fills,          \* table buy_fills, fill_id = index
    lots,               \* table lots in rowid order (tx_id is a fresh id)
    realized_trades,    \* table realized_trades, trade_id = index
    recommendations,    \* table recommendations, rec_id = index
    next_tx,            \* number of lot tx_ids handed out so far (uuid4 stand-in)
    last_offers,        \* the offers array of the last snapshot reconciled
    last_items,         \* LAST_STATUS: coins and inventory of the last /suggestion status
    buy_queue,          \* ledger.json: the buys queued by the last new-buys reply
    last_reply,         \* the action the last /suggestion request was answered with
    db_lock_held,       \* _db_lock is held by a request that will never release it
    pt_flips,           \* table pt_flips, flip_uuid = index
    pt_transactions,    \* table pt_transactions in rowid order
    mapping,            \* PriceCache.mapping: the refresh cycle that published it, 0 = the empty dict
    latest,             \* PriceCache.latest: the refresh cycle that published it
    volumes,            \* PriceCache.volumes: the refresh cycle that published it
    last_refresh,       \* PriceCache.last_refresh: the refresh cycle that stamped it, 0 = 0.0
    cycle,              \* the iteration refresh_forever is in
    refresh_pc,         \* where refresh_forever is in its iteration
    snap,               \* the tuple the last prices.snapshot() returned
    trend_cache,        \* TrendCache._cache: (item_id, horizon_min) -> (trend, ts)
    trend_ret,          \* what the last TrendCache.get returned
    trend_path,         \* the way the last TrendCache.get took: "none", "hit", "fetched", "failed"
    last_call,          \* the last call of a helper function: its name, argument and result
    requests,           \* the /suggestion requests in progress, one per server thread
    replies,            \* the actions /suggestion has answered with, where requests are followed step by step
    next_rec            \* number of rec_ids handed out to them (uuid4 stand-in)

ledger_vars == <<offer_instances, buy_fills, lots, realized_trades, recommendations, next_tx>>
engine_vars == <<last_items, buy_queue, last_reply, db_lock_held>>
pt_vars == <<pt_flips, pt_transactions>>
trend_vars == <<trend_cache, trend_ret, trend_path>>
cache_vars == <<mapping, latest, volumes, last_refresh, cycle, refresh_pc, snap, trend_vars, last_call>>
request_vars == <<requests, replies, next_rec>>

----------------------------------------------------------------------------
(* Bounds of the model *)

MaxThreads == 2         \* requests handled at a time
MaxInstances == 3       \* rows of offer_instances
RecInstances == 2       \* the same, where recommendations are followed
SugRecs == 2            \* rows of recommendations, where suggestions are issued
MaxRecs == 1            \* rows of recommendations
MaxTicks == 1           \* clock advances
MaxOffers == 2          \* entries of a snapshot's offers array

(* Program constants *)

NULL == -1                          \* SQL NULL / Python None
BUY_REC_TIMEOUT_SECONDS == 1200
LINK_WINDOW_SECONDS == 900
SELLER_TAX_CAP == 5000000
SELLER_TAX_DIV == 50                \* SELLER_TAX_RATE = 0.02 = 1/50

StartTs == 1000                     \* the clock when the server starts (> 0)
TickSeconds == 1200                  \* one clock advance

Boxes == {0, 1}
CostlyPrice == SELLER_TAX_CAP * SELLER_TAX_DIV + SELLER_TAX_DIV   \* 250 000 050: int(price * 0.02) is past the cap
ItemId == 7

Truthy(x) == x # NULL /\ x # 0

Min2(a, b) == IF a <= b THEN a ELSE b
Max2(a, b) == IF a >= b THEN a ELSE b

RECURSIVE SumSeq(_, _)
SumSeq(s, i) == IF i > Len(s) THEN 0 ELSE s[i] + SumSeq(s, i + 1)

Idx(s) == 1 .. Len(s)

----------------------------------------------------------------------------
(* Monetary helpers *)

\* seller_tax(price): int(price * 0.02), capped
\* (variant: the cap left out)
SellerTaxNoCap(price) == IF price <= 0 THEN 0 ELSE price \div SELLER_TAX_DIV
seller_tax(price) == IF price <= 0 THEN 0 ELSE Min2(price \div SELLER_TAX_DIV, SELLER_TAX_CAP)

----------------------------------------------------------------------------
(* The ledger as one value, for the operators that model the SQL *)

DB == [oi |-> offer_instances, bf |-> buy_fills, lots |-> lots,
       rt |-> realized_trades, recs |-> recommendations, ntx |-> next_tx]

\* get_open_offer_instance: newest row of the box with done_ts IS NULL, or 0
OpenIds(db, box_id) == {i \in Idx(db.oi) : db.oi[i].box_id = box_id /\ db.oi[i].done_ts = NULL}
get_open_offer_instance(db, box_id) ==
    LET S == OpenIds(db, box_id) IN
    IF S = {} THEN 0 ELSE CHOOSE i \in S : \A j \in S : j <= i

\* create_offer_instance: the new row; last_traded starts at the traded amount seen
NewInstance(box_id, status, item_id, price, amount_total, traded, active, t) ==
    [box_id |-> box_id, status |-> status, item_id |-> item_id, price |-> price,
     amount_total |-> amount_total, start_ts |-> t,
     first_fill_ts |-> IF traded > 0 THEN t ELSE NULL,
     done_ts |-> NULL, last_traded |-> traded,
     last_trade_ts |-> IF traded > 0 THEN t ELSE NULL,
     active |-> active, rec_id |-> NULL]

\* close_offer_instance: done_ts = COALESCE(done_ts, now)
close_offer_instance(db, offer_id, t) ==
    [db EXCEPT !.oi[offer_id].done_ts = IF @ = NULL THEN t ELSE @]

create_offer_instance(db, box_id, status, item_id, price, amount_total, traded, active, t) ==
    [db EXCEPT !.oi = Append(@, NewInstance(box_id, status, item_id, price, amount_total, traded, active, t))]

\* maybe_link_offer_to_recent_rec: the rec ids the query may return
\* (ORDER BY issued_ts DESC LIMIT 1: any of the newest when they tie)
LinkCandidates(db, status, box_id, item_id, t) ==
    LET M == {r \in Idx(db.recs) :
                /\ db.recs[r].rec_type = status
                /\ db.recs[r].box_id = box_id
                /\ db.recs[r].item_id = item_id
                /\ db.recs[r].linked_offer_id = NULL
                /\ db.recs[r].outcome_status = "issued"
                /\ db.recs[r].issued_ts >= t - LINK_WINDOW_SECONDS}
    IN {r \in M : \A q \in M : db.recs[q].issued_ts <= db.recs[r].issued_ts}

\* db_insert_lot + db_insert_buy_fill
LotRow(db, item_id, buy_price, qty, t, offer_id, rec_id) ==
    [tx_id |-> db.ntx + 1, item_id |-> item_id, buy_price |-> buy_price,
     qty_remaining |-> qty, buy_ts |-> t, buy_offer_id |-> offer_id, buy_rec_id |-> rec_id]
FillRow(item_id, buy_price, qty, t, offer_id, rec_id) ==
    [item_id |-> item_id, qty |-> qty, buy_price |-> buy_price, fill_ts |-> t,
     offer_id |-> offer_id, rec_id |-> rec_id]

InsertBuy(db, item_id, buy_price, qty, t, offer_id, rec_id) ==
    [db EXCEPT !.lots = Append(@, LotRow(db, item_id, buy_price, qty, t, offer_id, rec_id)),
               !.ntx = @ + 1,
               !.bf = Append(@, FillRow(item_id, buy_price, qty, t, offer_id, rec_id))]


\* db_consume_lots_fifo_for_sell ---------------------------------------------

\* the lots of the item with qty_remaining > 0
OpenLots(db, item_id) == {i \in Idx(db.lots) : db.lots[i].item_id = item_id /\ db.lots[i].qty_remaining > 0}

\* ORDER BY buy_ts ASC LIMIT 1: the rows the query may return (any of the oldest
\* when buy_ts ties; SQL leaves the order of equal keys open)
NewestLots(db, item_id) ==
    LET L == OpenLots(db, item_id) IN
    {i \in L : \A j \in L : db.lots[i].buy_ts >= db.lots[j].buy_ts}
OldestLots(db, item_id) ==
    LET L == OpenLots(db, item_id) IN
    {i \in L : \A j \in L : db.lots[i].buy_ts <= db.lots[j].buy_ts}

TradeRow(lot, item_id, take, sell_price, t, offer_id, rec_id) ==
    [item_id |-> item_id, qty |-> take, buy_price |-> lot.buy_price,
     sell_price |-> sell_price, buy_ts |-> lot.buy_ts, sell_ts |-> t,
     profit |-> (sell_price - lot.buy_price - seller_tax(sell_price)) * take,
     sell_offer_id |-> offer_id, sell_rec_id |-> rec_id, buy_rec_id |-> lot.buy_rec_id,
     lot_tx |-> lot.tx_id]      \* lot_tx: which lot the row consumed (not a column)

\* the lots table after taking `take` from row i: DELETE when nothing remains
LotsAfterTakeKeep(ls, i, take) ==
    IF ls[i].qty_remaining - take <= 0
    THEN [ls EXCEPT ![i].qty_remaining = 0]
    ELSE ls
LotsAfterTake(ls, i, take) ==
    IF ls[i].qty_remaining - take <= 0
    THEN [k \in 1 .. Len(ls) - 1 |-> IF k < i THEN ls[k] ELSE ls[k + 1]]
    ELSE [ls EXCEPT ![i].qty_remaining = @ - take]

\* one iteration of the while loop on lot row i
ConsumeOne(db, i, item_id, sell_price, qty_left, t, offer_id, rec_id) ==
    LET lot == db.lots[i]
        take == Min2(qty_left, lot.qty_remaining)
    IN [db EXCEPT !.rt = Append(@, TradeRow(lot, item_id, take, sell_price, t, offer_id, rec_id)),
                  !.lots = LotsAfterTake(@, i, take)]

RECURSIVE db_consume_lots_fifo_for_sell(_, _, _, _, _, _, _)
\* the set of ledgers the loop may end in
db_consume_lots_fifo_for_sell(db, item_id, sell_price, qty_left, t, offer_id, rec_id) ==
    IF qty_left <= 0 \/ OpenLots(db, item_id) = {} THEN {db}
    ELSE UNION { db_consume_lots_fifo_for_sell(
                     ConsumeOne(db, i, item_id, sell_price, qty_left, t, offer_id, rec_id),
                     item_id, sell_price,
                     qty_left - Min2(qty_left, db.lots[i].qty_remaining),
                     t, offer_id, rec_id)
                 : i \in OldestLots(db, item_id) }


\* update_recommendation_outcomes --------------------------------------------

IsFailed(st) == st \in {"failed_no_fill", "failed_cancelled"}

\* pass 1: buy recs still issued/linked with no first fill time out
\* (variant: every old buy rec times out, whatever its outcome)
TimeoutPassAnyStatus(recs, t) ==
    [r \in Idx(recs) |->
        IF recs[r].rec_type = "buy" /\ t - recs[r].issued_ts >= BUY_REC_TIMEOUT_SECONDS
        THEN [recs[r] EXCEPT !.outcome_status = "failed_no_fill", !.closed_ts = t]
        ELSE recs[r]]
TimeoutPass(recs, t) ==
    [r \in Idx(recs) |->
        IF /\ recs[r].rec_type = "buy"
           /\ recs[r].outcome_status \in {"issued", "linked"}
           /\ recs[r].buy_first_fill_ts = NULL
           /\ t - recs[r].issued_ts >= BUY_REC_TIMEOUT_SECONDS
        THEN [recs[r] EXCEPT !.outcome_status = "failed_no_fill", !.closed_ts = t]
        ELSE recs[r]]

BoughtQty(db, r) == SumSeq([i \in Idx(db.bf) |-> IF db.bf[i].rec_id = r THEN db.bf[i].qty ELSE 0], 1)
RemainingQty(db, r) == SumSeq([i \in Idx(db.lots) |-> IF db.lots[i].buy_rec_id = r THEN db.lots[i].qty_remaining ELSE 0], 1)
TradesOf(db, r) == {i \in Idx(db.rt) : db.rt[i].buy_rec_id = r}
RealizedProfit(db, r) == SumSeq([i \in Idx(db.rt) |-> IF db.rt[i].buy_rec_id = r THEN db.rt[i].profit ELSE 0], 1)
RealizedCost(db, r) == SumSeq([i \in Idx(db.rt) |-> IF db.rt[i].buy_rec_id = r THEN db.rt[i].qty * db.rt[i].buy_price ELSE 0], 1)
FirstSellTs(db, r) ==
    IF TradesOf(db, r) = {} THEN NULL
    ELSE db.rt[CHOOSE i \in TradesOf(db, r) : \A j \in TradesOf(db, r) : db.rt[i].sell_ts <= db.rt[j].sell_ts].sell_ts
LastSellTs(db, r) ==
    IF TradesOf(db, r) = {} THEN NULL
    ELSE db.rt[CHOOSE i \in TradesOf(db, r) : \A j \in TradesOf(db, r) : db.rt[i].sell_ts >= db.rt[j].sell_ts].sell_ts

\* pass 2 on one rec: rolling realized metrics, and completion
MetricsOne(db, rec, r) ==
    IF ~(rec.rec_type = "buy" /\ ~IsFailed(rec.outcome_status) /\ rec.outcome_status # "completed")
    THEN rec
    ELSE IF BoughtQty(db, r) <= 0 THEN rec
    ELSE LET fst == FirstSellTs(db, r)
             lst == LastSellTs(db, r)
             upd == [rec EXCEPT !.realized_profit = RealizedProfit(db, r),
                                !.realized_cost = RealizedCost(db, r),
                                !.first_sell_ts = fst,
                                !.last_sell_ts = lst,
                                !.sell_phase_seconds = IF Truthy(fst) /\ Truthy(lst) THEN lst - fst ELSE NULL]
         IN IF RemainingQty(db, r) <= 0 /\ lst # NULL
            THEN [upd EXCEPT !.outcome_status = "completed",
                             !.closed_ts = IF @ = NULL THEN lst ELSE @]
            ELSE upd

\* pass 3 on one rec: buy phase from the linked offer instance
BuyPhaseOne(db, rec) ==
    IF ~(/\ rec.rec_type = "buy"
         /\ rec.linked_offer_id # NULL
         /\ rec.buy_phase_seconds = NULL
         /\ ~IsFailed(rec.outcome_status))
    THEN rec
    ELSE IF rec.linked_offer_id \notin Idx(db.oi) THEN rec
    ELSE LET ff == db.oi[rec.linked_offer_id].first_fill_ts
             dn == db.oi[rec.linked_offer_id].done_ts
         IN IF Truthy(ff) /\ Truthy(dn) /\ dn >= ff
            THEN [rec EXCEPT !.buy_first_fill_ts = IF @ = NULL THEN ff ELSE @,
                             !.buy_done_ts = IF @ = NULL THEN dn ELSE @,
                             !.buy_phase_seconds = IF @ = NULL THEN dn - ff ELSE @,
                             !.outcome_status = IF @ \in {"linked", "issued", "buy_started"} THEN "buy_done" ELSE @]
            ELSE IF Truthy(ff) /\ ~Truthy(dn)
            THEN [rec EXCEPT !.buy_first_fill_ts = IF @ = NULL THEN ff ELSE @,
                             !.outcome_status = IF @ \in {"linked", "issued"} THEN "buy_started" ELSE @]
            ELSE rec

update_recommendation_outcomes(db, t) ==
    LET r1 == TimeoutPass(db.recs, t)
        r2 == [r \in Idx(r1) |-> MetricsOne(db, r1[r], r)]
        r3 == [r \in Idx(r2) |-> BuyPhaseOne(db, r2[r])]
    IN [db EXCEPT !.recs = r3]

\* sync_offers_and_fills ------------------------------------------------------

\* status == "empty": close the open instance of the box; a linked buy with no
\* fill fails as cancelled
SyncEmpty(db, box_id, t) ==
    LET open == get_open_offer_instance(db, box_id) IN
    IF open = 0 THEN db
    ELSE LET inst == db.oi[open]
             rec == inst.rec_id
             db1 == IF rec # NULL /\ inst.status = "buy" /\ inst.last_traded = 0
                       /\ ~IsFailed(db.recs[rec].outcome_status)
                       /\ db.recs[rec].outcome_status # "completed"
                    THEN [db EXCEPT !.recs[rec].outcome_status = "failed_cancelled",
                                    !.recs[rec].closed_ts = t]
                    ELSE db
         IN close_offer_instance(db1, open, t)

\* the instance the offer is booked on: the open one when (status, item_id,
\* amount_total) agree, else a new one (closing the open one first)
ReusesOpen(db, o) ==
    LET open == get_open_offer_instance(db, o.box_id) IN
    /\ open # 0
    /\ db.oi[open].status = o.status
    /\ db.oi[open].item_id = o.item_id
    /\ db.oi[open].amount_total = o.amount_total

\* (variant: the open instance is left open when the offer does not match it)
WithInstanceKeepOpen(db, o, t) ==
    LET open == get_open_offer_instance(db, o.box_id) IN
    IF open = 0 \/ ~ReusesOpen(db, o)
    THEN create_offer_instance(db, o.box_id, o.status, o.item_id, o.price, o.amount_total, o.amount_traded, o.active, t)
    ELSE db
WithInstance(db, o, t) ==
    LET open == get_open_offer_instance(db, o.box_id) IN
    IF open = 0
    THEN create_offer_instance(db, o.box_id, o.status, o.item_id, o.price, o.amount_total, o.amount_traded, o.active, t)
    ELSE IF ~ReusesOpen(db, o)
    THEN create_offer_instance(close_offer_instance(db, open, t),
                               o.box_id, o.status, o.item_id, o.price, o.amount_total, o.amount_traded, o.active, t)
    ELSE db

\* linking rec `rec` to the instance (rec = NULL: nothing found)
\* (variant: the UPDATE keyed by the offer's kind, box and item instead of by
\* rec_id and linked_offer_id IS NULL)
LinkRecByKind(db, offer_id, rec) ==
    [db EXCEPT !.oi[offer_id].rec_id = IF @ = NULL THEN rec ELSE @,
               !.recs = [r \in Idx(@) |->
                           IF /\ @[r].rec_type = db.oi[offer_id].status
                              /\ @[r].box_id = db.oi[offer_id].box_id
                              /\ @[r].item_id = db.oi[offer_id].item_id
                           THEN [@[r] EXCEPT !.linked_offer_id = offer_id, !.outcome_status = "linked"]
                           ELSE @[r]]]
LinkRec(db, offer_id, rec) ==
    IF rec = NULL THEN db
    ELSE [db EXCEPT !.oi[offer_id].rec_id = IF @ = NULL THEN rec ELSE @,
                    !.recs[rec] = IF @.linked_offer_id = NULL
                                  THEN [@ EXCEPT !.linked_offer_id = offer_id, !.outcome_status = "linked"]
                                  ELSE @]

\* the fill delta applied: a lot and a buy fill, or FIFO consumption (a set of ledgers)
ApplyDelta(db, o, offer_id, inst_rec, delta, t) ==
    IF delta <= 0 THEN {db}
    ELSE IF o.status = "buy"
    THEN {InsertBuy(db, o.item_id, o.price, delta, t, offer_id, inst_rec)}
    ELSE db_consume_lots_fifo_for_sell(db, o.item_id, o.price, delta, t, offer_id, inst_rec)

\* the closing UPDATE of the instance row
UpdateInstance(db, o, offer_id, inst_rec, prev_first_fill, delta, t) ==
    LET first_fill_ts == IF prev_first_fill # NULL THEN prev_first_fill
                         ELSE IF o.amount_traded > 0 THEN t ELSE NULL
        done_ts == IF (~o.active) \/ (o.amount_total > 0 /\ o.amount_traded >= o.amount_total)
                   THEN t ELSE NULL
    IN [db EXCEPT !.oi[offer_id] =
           [@ EXCEPT !.price = o.price,
                     !.amount_total = o.amount_total,
                     !.first_fill_ts = IF @ = NULL THEN first_fill_ts ELSE @,
                     !.done_ts = IF @ = NULL THEN done_ts ELSE @,
                     !.last_traded = o.amount_traded,
                     !.last_trade_ts = IF delta > 0 THEN t ELSE @,
                     !.active = o.active,
                     !.rec_id = IF @ = NULL THEN inst_rec ELSE @]]

\* a buy/sell offer with valid fields, once its instance and rec are known
SyncBooked(db1, o, offer_id, inst_rec, t) ==
    LET prev_traded == db1.oi[offer_id].last_traded
        prev_first_fill == db1.oi[offer_id].first_fill_ts
        delta == o.amount_traded - prev_traded
    IN { UpdateInstance(d, o, offer_id, inst_rec, prev_first_fill, delta, t)
         : d \in ApplyDelta(db1, o, offer_id, inst_rec, delta, t) }

\* a field value that int() rejects (a string that is no number)
NotAnInt == -1000000
Unparsed(v) == v = NotAnInt

\* one iteration of the loop over the offers: the set of ledgers it may leave
\* (box_id that does not parse: 0; item_id, price, amount_total or
\* amount_traded that does not parse: the offer is passed over)
SyncOffer(db, raw, t) ==
    LET o == [raw EXCEPT !.box_id = IF Unparsed(@) THEN 0 ELSE @] IN
    IF o.status = "empty" THEN {SyncEmpty(db, o.box_id, t)}
    ELSE IF o.status \notin {"buy", "sell"} THEN {db}
    ELSE IF Unparsed(o.item_id) \/ Unparsed(o.price) \/ Unparsed(o.amount_total) \/ Unparsed(o.amount_traded)
    THEN {db}
    ELSE IF o.item_id <= 0 \/ o.price <= 0 \/ o.amount_total < 0 \/ o.amount_traded < 0 THEN {db}
    ELSE LET db1 == WithInstance(db, o, t)
             offer_id == IF ReusesOpen(db, o) THEN get_open_offer_instance(db, o.box_id) ELSE Len(db1.oi)
             had == db1.oi[offer_id].rec_id
             cands == LinkCandidates(db1, o.status, o.box_id, o.item_id, t)
             choices == IF had # NULL THEN {had} ELSE IF cands = {} THEN {NULL} ELSE cands
         IN UNION { SyncBooked(IF had = NULL THEN LinkRec(db1, offer_id, rec) ELSE db1, o, offer_id, rec, t)
                    : rec \in choices }

RECURSIVE SyncLoop(_, _, _, _)
SyncLoop(dbs, offers, i, t) ==
    IF i > Len(offers) THEN dbs
    ELSE SyncLoop(UNION {SyncOffer(d, offers[i], t) : d \in dbs}, offers, i + 1, t)

\* the ledgers sync_offers_and_fills may commit for the snapshot's offers
sync_offers_and_fills(db, offers, t) ==
    {update_recommendation_outcomes(d, t) : d \in SyncLoop({db}, offers, 1, t)}

----------------------------------------------------------------------------
(* The offers arrays a client status may carry *)

EmptyOffer(b) ==
    [box_id |-> b, status |-> "empty", active |-> FALSE, item_id |-> 0, price |-> 0,
     amount_total |-> 0, amount_traded |-> 0]

\* an offer in a slot; fully traded, it is no longer active
Offer(b, status, price, total, traded, active) ==
    [box_id |-> b, status |-> status, active |-> active /\ traded < total, item_id |-> ItemId,
     price |-> price, amount_total |-> total, amount_traded |-> traded]

RECURSIVE SeqsUpTo(_, _)
\* the non-empty sequences over S of length <= n
SeqsUpTo(S, n) ==
    IF n <= 0 THEN {}
    ELSE {<<x>> : x \in S} \cup {Append(q, x) : q \in SeqsUpTo(S, n - 1), x \in S}

\* FIFO accounting: buys in box 0 at two prices, sells in box 1
FifoMenu ==
    {Offer(0, "buy", p, 5, t, TRUE) : p \in {100, 120}, t \in {0, 5}}
    \cup {Offer(1, "sell", 130, 10, t, TRUE) : t \in {0, 8}}

\* slot bookkeeping: box 0 seen as a buy, with another total, as a sell, with
\* another item, empty; box 1 seen as a buy
SlotsMenu ==
    {Offer(0, "buy", 100, 5, 0, TRUE), Offer(0, "buy", 100, 6, 0, TRUE), Offer(0, "sell", 100, 5, 0, TRUE)}
    \cup {[Offer(0, "buy", 100, 5, 0, TRUE) EXCEPT !.item_id = ItemId + 1]}
    \cup {EmptyOffer(0), Offer(1, "buy", 100, 5, 0, TRUE)}

\* recommendation outcomes: a buy in box 0 seen unfilled and partly filled,
\* the slot emptied, and the goods sold from the same box
RecsMenu ==
    {Offer(0, "buy", 100, 5, t, TRUE) : t \in {0, 2}}
    \cup {Offer(0, "sell", 130, 2, t, TRUE) : t \in {0, 2}}
    \cup {EmptyOffer(0)}

\* buy then sell: 10 bought at 100 and sold at 110 in box 0; one costly item
\* bought and sold above the price where the tax reaches its cap in box 1
BuySellMenu ==
    {Offer(0, "buy", 100, 10, t, TRUE) : t \in {0, 10}}
    \cup {Offer(0, "sell", 110, 10, t, TRUE) : t \in {0, 10}}
    \cup {Offer(1, "buy", 100, 1, t, TRUE) : t \in {0, 1}}
    \cup {Offer(1, "sell", CostlyPrice, 1, t, TRUE) : t \in {0, 1}}

\* replay: a buy in box 0 seen untraded, partly and fully traded, and a sell
\* in box 1 seen untraded and partly traded
ReplayMenu ==
    {Offer(0, "buy", 100, 5, t, TRUE) : t \in {0, 2, 5}}
    \cup {Offer(1, "sell", 130, 5, t, TRUE) : t \in {0, 2}}

----------------------------------------------------------------------------
(* Actions *)

NoItems == [coins |-> 0, inv |-> <<>>, timeframe |-> 0, requested |-> {}, sell_only |-> FALSE, updated_unix |-> 0]
NoReply == [type |-> "none"]

\* the server threads that handle requests, and a thread between requests
Threads == 1 .. MaxThreads
IdleRequest == [pc |-> "idle", status |-> NoItems, led |-> <<>>, action |-> NoReply]

\* the state after construction, but for the helper call
InitBase ==
    /\ now = StartTs
    /\ offer_instances = <<>>
    /\ buy_fills = <<>>
    /\ lots = <<>>
    /\ realized_trades = <<>>
    /\ recommendations = <<>>
    /\ next_tx = 0
    /\ last_offers = <<>>
    /\ last_items = NoItems
    /\ buy_queue = <<>>
    /\ last_reply = NoReply
    /\ db_lock_held = FALSE
    /\ pt_flips = <<>>
    /\ pt_transactions = <<>>
    /\ mapping = 0
    /\ latest = 0
    /\ volumes = 0
    /\ last_refresh = 0
    /\ cycle = 1
    /\ refresh_pc = "mapping"
    /\ snap = <<0, 0, 0, 0>>
    /\ trend_cache = <<>>
    /\ trend_ret = 0
    /\ trend_path = "none"
    /\ requests = [t \in Threads |-> IdleRequest]
    /\ replies = <<>>
    /\ next_rec = 0

InitLedger ==
    /\ InitBase
    /\ last_call = [fn |-> "none", arg |-> 0, ret |-> 0]

\* at most m offer instances, and fewer buy fills than that
WithinBounds(db, m) == Len(db.oi) <= m /\ Len(db.bf) < m

SetLedger(db) ==
    /\ offer_instances' = db.oi
    /\ buy_fills' = db.bf
    /\ lots' = db.lots
    /\ realized_trades' = db.rt
    /\ recommendations' = db.recs
    /\ next_tx' = db.ntx

\* a client that reports a standing offer never reports less traded than before
Growing(offers) ==
    \A k \in Idx(offers) :
        ReusesOpen(DB, offers[k]) =>
            offers[k].amount_traded >= offer_instances[get_open_offer_instance(DB, offers[k].box_id)].last_traded

\* one committed call of sync_offers_and_fills on an offers array over `menu`
\* of at most n entries; `track` keeps the array in last_offers; `growing`
\* takes the arrays of such a client only; m bounds the ledger
Sync(menu, n, m, track, growing) ==
    \E offers \in SeqsUpTo(menu, n) :
      \E db \in sync_offers_and_fills(DB, offers, now) :
        /\ WithinBounds(db, m)
        /\ growing => Growing(offers)
        /\ SetLedger(db)
        /\ last_offers' = IF track THEN offers ELSE <<>>
        /\ UNCHANGED <<request_vars, now, engine_vars, pt_vars, cache_vars>>

\* record_recommendation: INSERT OR IGNORE of a fresh rec_id, outcome 'issued'
RecRow(type, box_id, item_id, price, qty, issued_ts) ==
    [rec_type |-> type, box_id |-> box_id, item_id |-> item_id, price |-> price, qty |-> qty,
     issued_ts |-> issued_ts, linked_offer_id |-> NULL, outcome_status |-> "issued",
     buy_first_fill_ts |-> NULL, buy_done_ts |-> NULL, buy_phase_seconds |-> NULL,
     first_sell_ts |-> NULL, last_sell_ts |-> NULL, sell_phase_seconds |-> NULL,
     realized_profit |-> NULL, realized_cost |-> NULL, closed_ts |-> NULL]

record_recommendation(db, action) ==
    IF action.type \notin {"buy", "sell", "abort"} THEN db
    ELSE [db EXCEPT !.recs = Append(@, RecRow(action.type, action.box_id, action.item_id,
                                              action.price, action.quantity, action.issued_unix))]

\* an action of one of `kinds` (type, box) is issued and recorded
RecordRecommendation(kinds) ==
    \E k \in kinds :
        /\ Len(recommendations) < MaxRecs
        /\ SetLedger(record_recommendation(DB,
               [type |-> k[1], box_id |-> k[2], item_id |-> ItemId, price |-> 0, quantity |-> 0, issued_unix |-> now]))
        /\ UNCHANGED <<request_vars, now, last_offers, engine_vars, pt_vars, cache_vars>>

Tick ==
    /\ now < StartTs + MaxTicks * TickSeconds
    /\ now' = now + TickSeconds
    /\ UNCHANGED <<request_vars, ledger_vars, last_offers, engine_vars, pt_vars, cache_vars>>

vars == <<now, offer_instances, buy_fills, lots, realized_trades, recommendations, next_tx, last_offers,
          last_items, buy_queue, last_reply, db_lock_held, pt_flips, pt_transactions,
          mapping, latest, volumes, last_refresh, cycle, refresh_pc, snap, trend_cache, trend_ret, trend_path, last_call,
          requests, replies, next_rec>>

----------------------------------------------------------------------------
(* FIFO lot accounting *)

SyncFifo == Sync(FifoMenu, 1, MaxInstances, FALSE, FALSE)

NextFifo == SyncFifo \/ Tick

SpecFifo == InitLedger /\ [][NextFifo]_vars


\* C1: for every item, what the lots still hold plus what the realized trades
\* sold equals what the buy fills bought
LotQty(item) == SumSeq([i \in Idx(lots) |-> IF lots[i].item_id = item THEN lots[i].qty_remaining ELSE 0], 1)
TradeQty(item) == SumSeq([i \in Idx(realized_trades) |-> IF realized_trades[i].item_id = item THEN realized_trades[i].qty ELSE 0], 1)
FillQty(item) == SumSeq([i \in Idx(buy_fills) |-> IF buy_fills[i].item_id = item THEN buy_fills[i].qty ELSE 0], 1)

C1_Conservation == \A item \in {ItemId} : LotQty(item) + TradeQty(item) = FillQty(item)

\* a lot partly sold, with a trade and a fill on the books
C1_Witness ==
    /\ Len(realized_trades) >= 2
    /\ \E i \in Idx(lots) : lots[i].qty_remaining = 2
    /\ FillQty(ItemId) = 10

\* C2: a sell delta d > 0 consumes the item's lots oldest buy_ts first, takes
\* min(lot remaining, delta remaining) from each, writes one trade per lot
\* touched, deletes a lot that reaches 0 and leaves the difference in a lot
\* partly consumed; lots 5@100 then 5@120 and a sell of 8@130 give trades
\* (5, 100, profit 140) and (3, 120, profit 24) and leave one lot of 2
NewTrades == SubSeq(realized_trades', Len(realized_trades) + 1, Len(realized_trades'))
SellDelta ==
    SumSeq([i \in Idx(offer_instances) |->
              IF offer_instances[i].status = "sell"
              THEN Max2(offer_instances'[i].last_traded - offer_instances[i].last_traded, 0)
              ELSE 0], 1)
LotByTx(ls, tx) == {i \in Idx(ls) : ls[i].tx_id = tx}
Touched == {NewTrades[k].lot_tx : k \in Idx(NewTrades)}
TakenBefore(k) == SumSeq([m \in 1 .. k - 1 |-> NewTrades[m].qty], 1)
OpenQtyBefore == SumSeq([i \in Idx(lots) |-> lots[i].qty_remaining], 1)
FifoStep ==
    /\ \A k \in Idx(NewTrades) :
         \E i \in LotByTx(lots, NewTrades[k].lot_tx) :
            /\ NewTrades[k].qty = Min2(lots[i].qty_remaining, SellDelta - TakenBefore(k))
            /\ NewTrades[k].qty > 0
            /\ NewTrades[k].buy_price = lots[i].buy_price
            /\ NewTrades[k].buy_ts = lots[i].buy_ts
            /\ \A m \in Idx(NewTrades) : m # k => NewTrades[m].lot_tx # NewTrades[k].lot_tx
            /\ \A m \in Idx(NewTrades) : m < k => NewTrades[m].buy_ts <= NewTrades[k].buy_ts
            /\ \A j \in Idx(lots) : lots[j].tx_id \notin Touched => lots[i].buy_ts <= lots[j].buy_ts
            /\ IF NewTrades[k].qty = lots[i].qty_remaining
               THEN LotByTx(lots', lots[i].tx_id) = {}
               ELSE \E j \in LotByTx(lots', lots[i].tx_id) :
                        lots'[j] = [lots[i] EXCEPT !.qty_remaining = @ - NewTrades[k].qty]
    /\ TakenBefore(Len(NewTrades) + 1) = Min2(SellDelta, OpenQtyBefore)
    /\ \A j \in Idx(lots) : lots[j].tx_id \notin Touched => \E i \in Idx(lots') : lots'[i] = lots[j]
    /\ Len(lots') <= Len(lots)
FifoExample ==
    ( /\ Len(lots) = 2
      /\ lots[1].buy_price = 100 /\ lots[1].qty_remaining = 5
      /\ lots[2].buy_price = 120 /\ lots[2].qty_remaining = 5
      /\ lots[1].buy_ts < lots[2].buy_ts
      /\ SellDelta = 8 )
    => /\ Len(NewTrades) = 2
       /\ NewTrades[1].qty = 5 /\ NewTrades[1].buy_price = 100 /\ NewTrades[1].profit = 140
       /\ NewTrades[2].qty = 3 /\ NewTrades[2].buy_price = 120 /\ NewTrades[2].profit = 24
       /\ Len(lots') = 1 /\ lots'[1].qty_remaining = 2 /\ lots'[1].buy_price = 120
C2_FifoConsumption == [][SellDelta > 0 => FifoStep /\ FifoExample]_vars

\* the ledger right after the example: the two trades and the lot of 2
C2_Witness ==
    /\ Len(realized_trades) = 2
    /\ realized_trades[1].qty = 5 /\ realized_trades[1].profit = 140
    /\ realized_trades[2].qty = 3 /\ realized_trades[2].profit = 24
    /\ realized_trades[1].buy_ts < realized_trades[2].buy_ts
    /\ Len(lots) = 1 /\ lots[1].qty_remaining = 2

\* C3: of two trades of one item that consumed different lots, the one whose
\* lot was bought earlier has the smaller trade_id
C3_FifoOrder ==
    \A i, j \in Idx(realized_trades) :
        ( /\ realized_trades[i].item_id = realized_trades[j].item_id
          /\ realized_trades[i].lot_tx # realized_trades[j].lot_tx
          /\ realized_trades[i].buy_ts < realized_trades[j].buy_ts ) => i < j

\* two trades on lots bought at different times, while a third lot was open
C3_Witness ==
    \E i, j \in Idx(realized_trades) :
        /\ realized_trades[i].lot_tx # realized_trades[j].lot_tx
        /\ realized_trades[i].buy_ts < realized_trades[j].buy_ts


----------------------------------------------------------------------------
(* Slot bookkeeping *)

SyncSlots == Sync(SlotsMenu, MaxOffers, MaxInstances, FALSE, FALSE)

\* the snapshots arrive within one second: the clock plays no part in the
\* choice of the instance an offer is booked on
NextSlots == SyncSlots

SpecSlots == InitLedger /\ [][NextSlots]_vars

\* C4: every box has at most one offer instance with done_ts NULL, whatever the
\* snapshots were (a box listed twice; status, item or total changed)
C4_OneOpenPerBox == \A b \in Boxes : Cardinality(OpenIds(DB, b)) <= 1

\* box 0 seen as three different offers: two closed instances and one open one
C4_Witness ==
    /\ Len(offer_instances) = 3
    /\ offer_instances[2].status # offer_instances[3].status
    /\ \A i \in 1 .. 3 : offer_instances[i].box_id = 0
    /\ offer_instances[1].done_ts # NULL /\ offer_instances[2].done_ts # NULL
    /\ offer_instances[3].done_ts = NULL
    /\ offer_instances[1].amount_total # offer_instances[2].amount_total
       \/ offer_instances[1].item_id # offer_instances[2].item_id


----------------------------------------------------------------------------
(* Recommendation outcomes *)

SyncRecs == Sync(RecsMenu, 1, RecInstances, FALSE, TRUE)

RecordRecs == RecordRecommendation({<<"buy", 0>>, <<"sell", 0>>})

NextRecs == SyncRecs \/ RecordRecs \/ Tick

SpecRecs == InitLedger /\ [][NextRecs]_vars

OutcomeRank(st) ==
    CASE st = "issued" -> 0
      [] st = "linked" -> 1
      [] st = "buy_started" -> 2
      [] st = "buy_done" -> 3
      [] OTHER -> 4

IsTerminal(st) == st = "completed" \/ IsFailed(st)

\* C5: outcome_status never moves back along issued, linked, buy_started,
\* buy_done, completed; it may enter failed_no_fill or failed_cancelled; once
\* completed or failed it never changes
C5_OutcomeForward ==
    [][\A r \in Idx(recommendations) :
         LET old == recommendations[r].outcome_status
             new == recommendations'[r].outcome_status
         IN /\ IsTerminal(old) => new = old
            /\ ~IsTerminal(old) => (IsFailed(new) \/ OutcomeRank(new) >= OutcomeRank(old))]_vars

\* a buy rec that went all the way: linked, bought, sold and completed, and
\* the clock has moved on since
C5_Witness ==
    \E r \in Idx(recommendations) :
        /\ recommendations[r].outcome_status = "completed"
        /\ recommendations[r].linked_offer_id # NULL
        /\ recommendations[r].buy_done_ts # NULL
        /\ now - recommendations[r].issued_ts >= BUY_REC_TIMEOUT_SECONDS

\* C6: a recommendation's linked_offer_id, once set, keeps its value, also when
\* later offer instances match the rec's type, box and item
C6_LinkedOnce ==
    [][\A r \in Idx(recommendations) :
         recommendations[r].linked_offer_id # NULL =>
             recommendations'[r].linked_offer_id = recommendations[r].linked_offer_id]_vars

\* a rec linked to one instance while a later instance of the same type, box
\* and item, seen within the link window, has no rec
C6_Witness ==
    \E r \in Idx(recommendations), j \in Idx(offer_instances) :
        /\ recommendations[r].linked_offer_id # NULL
        /\ recommendations[r].linked_offer_id < j
        /\ offer_instances[j].status = recommendations[r].rec_type
        /\ offer_instances[j].box_id = recommendations[r].box_id
        /\ offer_instances[j].item_id = recommendations[r].item_id
        /\ offer_instances[j].start_ts - recommendations[r].issued_ts <= LINK_WINDOW_SECONDS
        /\ offer_instances[j].rec_id = NULL


----------------------------------------------------------------------------
(* Buy then sell *)

SyncBuySell == Sync(BuySellMenu, 1, MaxInstances, FALSE, FALSE)

NextBuySell == SyncBuySell \/ Tick

SpecBuySell == InitLedger /\ [][NextBuySell]_vars

\* the instances a step takes from open and untraded to fully traded
FilledNow(status) ==
    {i \in Idx(offer_instances) :
        /\ offer_instances[i].status = status
        /\ offer_instances[i].done_ts = NULL
        /\ offer_instances[i].last_traded = 0
        /\ offer_instances'[i].amount_total > 0
        /\ offer_instances'[i].last_traded = offer_instances'[i].amount_total}

\* the buy half: one fill and one lot of the whole quantity at the offer price,
\* and the instance closed
BuyFilled ==
    \A i \in FilledNow("buy") :
        LET o == offer_instances'[i] IN
        /\ o.done_ts # NULL
        /\ Len(buy_fills') = Len(buy_fills) + 1
        /\ buy_fills'[Len(buy_fills')].qty = o.amount_total
        /\ buy_fills'[Len(buy_fills')].buy_price = o.price
        /\ Cardinality({k \in Idx(buy_fills') : buy_fills'[k].offer_id = i}) = 1
        /\ Len(lots') = Len(lots) + 1
        /\ lots'[Len(lots')].qty_remaining = o.amount_total
        /\ lots'[Len(lots')].buy_price = o.price
        /\ Cardinality({k \in Idx(lots') : lots'[k].buy_offer_id = i}) = 1

\* the sell half, when the ledger holds just the lot bought before: one trade
\* of the whole quantity with the profit tax(sell_price) gives, and no lot left
SellFilled(tax(_)) ==
    \A i \in FilledNow("sell") :
        LET o == offer_instances'[i] IN
        (Len(lots) = 1 /\ lots[1].item_id = o.item_id /\ lots[1].qty_remaining = o.amount_total)
        => /\ Len(realized_trades') = Len(realized_trades) + 1
           /\ realized_trades'[Len(realized_trades')].qty = o.amount_total
           /\ realized_trades'[Len(realized_trades')].profit =
                  o.amount_total * (o.price - lots[1].buy_price - tax(o.price))
           /\ (o.price = 110 /\ lots[1].buy_price = 100 /\ o.amount_total = 10)
                  => realized_trades'[Len(realized_trades')].profit = 80
           /\ lots' = <<>>

FloorTax(price) == (price * 2) \div 100
CappedTax(price) == Min2(FloorTax(price), SELLER_TAX_CAP)

\* C9 as stated: a buy seen untraded and then fully traded and inactive gives
\* one lot and one buy fill of that quantity at the offer price and closes the
\* instance; the sell seen untraded and then fully traded gives one trade with
\* profit = qty * (sell_price - buy_price - floor(sell_price * 0.02)) and
\* leaves no lot (10 at 100 sold at 110: profit 80)
C9_AsStated == [][BuyFilled /\ SellFilled(FloorTax)]_vars

\* C9 amended: the same, with the tax per unit min(floor(sell_price * 0.02),
\* 5 000 000)
C9_BuyThenSell == [][BuyFilled /\ SellFilled(CappedTax)]_vars

\* 10 bought at 100 and sold at 110: both instances closed, one fill, one trade
\* of profit 80, no lot
C9_Witness ==
    /\ Len(offer_instances) = 2
    /\ offer_instances[1].status = "buy" /\ offer_instances[1].done_ts # NULL
    /\ offer_instances[2].status = "sell" /\ offer_instances[2].done_ts # NULL
    /\ Len(buy_fills) = 1 /\ buy_fills[1].qty = 10 /\ buy_fills[1].buy_price = 100
    /\ Len(realized_trades) = 1 /\ realized_trades[1].qty = 10 /\ realized_trades[1].profit = 80
    /\ lots = <<>>


----------------------------------------------------------------------------
(* The same snapshot processed again *)

SyncReplay == Sync(ReplayMenu, MaxOffers, MaxInstances, TRUE, FALSE)

\* the replays follow one another within one second
NextReplay == SyncReplay

SpecReplay == InitLedger /\ [][NextReplay]_vars

\* the step processes the offers array processed last
IsReplay == last_offers # <<>> /\ last_offers' = last_offers /\ offer_instances' # offer_instances

NoNewRows ==
    /\ buy_fills' = buy_fills
    /\ lots' = lots
    /\ realized_trades' = realized_trades

\* C7: processing the same snapshot a second time adds no buy_fills, lots or
\* realized_trades row and takes nothing from a lot, whatever its offers are
C7_ReplayAddsNothing == [][IsReplay => NoNewRows]_vars

\* the offers array lists no box twice
BoxesOnce(offers) == \A i, j \in Idx(offers) : offers[i].box_id = offers[j].box_id => i = j

\* the same for snapshots that list every box once
C7_ReplayBoxesOnce == [][(IsReplay /\ BoxesOnce(last_offers)) => NoNewRows]_vars

\* a snapshot with a fully traded buy processed twice: two closed instances
\* of the same offer and no fill
C7_Witness ==
    /\ Len(last_offers) = 2
    /\ BoxesOnce(last_offers)
    /\ last_offers[1].amount_traded = 5
    /\ Len(offer_instances) >= 2
    /\ offer_instances[1].done_ts # NULL /\ offer_instances[2].done_ts # NULL
    /\ offer_instances[1].last_traded = 5 /\ offer_instances[2].last_traded = 5


----------------------------------------------------------------------------
(* The /suggestion priority engine *)

STALE_OFFER_SECONDS == 120
ABORT_COOLDOWN_SECONDS == 120
STUCK_BUY_ABORT_SECONDS == 1200
BUY_LIMIT_RESET_SECONDS == 14400
BUY_BUDGET_CAP == 10000000
MIN_DAILY_VOLUME == 10000
MAX_DAILY_VOLUME == 1000000000
MIN_BUY_PRICE == 1
MIN_MARGIN_GP == 1
INVENTORY_SLOTS == 28
DEFAULT_TIMEFRAME == 5

\* prices.snapshot(): the price tables, the same for every request. latest in
\* the order of latest.items(); mapping and volumes hold every priced item
OtherItem == ItemId + 1
LatestItems == <<ItemId, OtherItem>>
Latest(item) ==
    IF item = ItemId THEN [low |-> 500, high |-> 520]
    ELSE IF item = OtherItem THEN [low |-> 100, high |-> 110]
    ELSE [low |-> 0, high |-> 0]
Volume(item) == IF item = ItemId THEN 500000 ELSE 1000000
BuyLimit(item) == IF item = OtherItem THEN 60 ELSE NULL
InTables(item) == item \in {ItemId, OtherItem}

\* the timeframe tier of the request
stale_seconds(tf) == Max2(STALE_OFFER_SECONDS, tf * 60)
min_margin_eff(tf) ==
    IF tf <= 5 THEN Max2(1, MIN_MARGIN_GP)
    ELSE IF tf <= 30 THEN Max2(MIN_MARGIN_GP, 25)
    ELSE IF tf <= 120 THEN Max2(MIN_MARGIN_GP, 50)
    ELSE Max2(MIN_MARGIN_GP, 100)
\* min_roi_eff in 1/10000
min_roi_eff(tf) == IF tf <= 5 THEN 5 ELSE IF tf <= 30 THEN 30 ELSE IF tf <= 120 THEN 60 ELSE 100
max_buy_mins(tf) == IF tf <= 5 THEN 15 ELSE IF tf <= 30 THEN 60 ELSE IF tf <= 120 THEN 240 ELSE 720

\* command builders; rec_id is the row the action gets when it is recorded
build_wait(msg) ==
    [type |-> "wait", box_id |-> 0, item_id |-> -1, price |-> 0, quantity |-> 0,
     issued_unix |-> 0, message |-> msg]
build_buy(box_id, item_id, price, qty, t) ==
    [type |-> "buy", box_id |-> box_id, item_id |-> item_id, price |-> price, quantity |-> qty,
     issued_unix |-> t, message |-> "buy"]
build_sell(box_id, item_id, price, qty, t, note) ==
    [type |-> "sell", box_id |-> box_id, item_id |-> item_id, price |-> price, quantity |-> qty,
     issued_unix |-> t, message |-> note]
build_abort(box_id, item_id, reason, t) ==
    [type |-> "abort", box_id |-> box_id, item_id |-> item_id, price |-> 0, quantity |-> 0,
     issued_unix |-> t, message |-> reason]

\* should_throttle_abort, were it to read the oldest abort of the box
\* (ORDER BY issued_ts ASC)
ThrottleByOldestAbort(db, box_id, t) ==
    LET A == {r \in Idx(db.recs) : db.recs[r].rec_type = "abort" /\ db.recs[r].box_id = box_id} IN
    IF A = {} THEN FALSE
    ELSE LET last_ts == db.recs[CHOOSE r \in A : \A q \in A : db.recs[q].issued_ts >= db.recs[r].issued_ts].issued_ts
         IN (t - last_ts) < ABORT_COOLDOWN_SECONDS

\* should_throttle_abort: the newest abort rec of the box is younger than the cooldown
should_throttle_abort(db, box_id, t) ==
    LET A == {r \in Idx(db.recs) : db.recs[r].rec_type = "abort" /\ db.recs[r].box_id = box_id} IN
    IF A = {} THEN FALSE
    ELSE LET last_ts == db.recs[CHOOSE r \in A : \A q \in A : db.recs[q].issued_ts <= db.recs[r].issued_ts].issued_ts
         IN (t - last_ts) < ABORT_COOLDOWN_SECONDS

\* db_open_qty_and_avg_cost: (q, int(v / q))
OpenQty(db, item) == SumSeq([i \in Idx(db.lots) |->
    IF db.lots[i].item_id = item /\ db.lots[i].qty_remaining > 0 THEN db.lots[i].qty_remaining ELSE 0], 1)
OpenValue(db, item) == SumSeq([i \in Idx(db.lots) |->
    IF db.lots[i].item_id = item /\ db.lots[i].qty_remaining > 0
    THEN db.lots[i].qty_remaining * db.lots[i].buy_price ELSE 0], 1)
AvgCost(db, item) == IF OpenQty(db, item) > 0 THEN OpenValue(db, item) \div OpenQty(db, item) ELSE 0

\* a window that also counts the quantities of the buys recommended
BoughtOrRecommended(db, item, cutoff) ==
    SumSeq([i \in Idx(db.bf) |->
        IF db.bf[i].item_id = item /\ db.bf[i].fill_ts >= cutoff THEN db.bf[i].qty ELSE 0], 1)
    + SumSeq([r \in Idx(db.recs) |->
        IF db.recs[r].rec_type = "buy" /\ db.recs[r].item_id = item /\ db.recs[r].issued_ts >= cutoff
        THEN db.recs[r].qty ELSE 0], 1)

\* db_bought_qty_in_window
db_bought_qty_in_window(db, item, cutoff) == SumSeq([i \in Idx(db.bf) |->
    IF db.bf[i].item_id = item /\ db.bf[i].fill_ts >= cutoff THEN db.bf[i].qty ELSE 0], 1)

RECURSIVE FirstBreakEven(_, _, _)
\* (variant: the first p that does not lose)
FirstBreakEven(p, stop, avg_buy) ==
    IF p >= stop THEN NULL
    ELSE IF p - avg_buy - seller_tax(p) >= 0 THEN p
    ELSE FirstBreakEven(p + 1, stop, avg_buy)

RECURSIVE FirstProfitable(_, _, _)
\* the loop of min_profitable_sell_price: the first p below `stop` with
\* p - avg_buy - seller_tax(p) >= 1, or NULL
FirstProfitable(p, stop, avg_buy) ==
    IF p >= stop THEN NULL
    ELSE IF p - avg_buy - seller_tax(p) >= 1 THEN p
    ELSE FirstProfitable(p + 1, stop, avg_buy)

\* min_profitable_sell_price: the first p from max(1, guess - 30) below
\* guess + 500 with p - avg_buy - seller_tax(p) >= 1, guess = ceil((avg_buy + 1) / 0.98)
\* ceil((avg_buy + 1) / 0.98) = ceil((avg_buy + 1) * 50 / 49)
SellGuess(avg_buy) == (avg_buy + 1) + (avg_buy + 1 + 48) \div 49

\* min_profitable_sell_price, were the search to start at the guess
MinProfitableFromGuess(avg_buy) ==
    IF avg_buy <= 0 THEN 1
    ELSE LET guess == SellGuess(avg_buy)
             first == FirstProfitable(guess, guess + 500, avg_buy)
         IN IF first = NULL THEN Max2(guess, 1) ELSE first

min_profitable_sell_price(avg_buy) ==
    IF avg_buy <= 0 THEN 1
    ELSE LET guess == SellGuess(avg_buy)
             first == FirstProfitable(Max2(1, guess - 30), guess + 500, avg_buy)
         IN IF first = NULL THEN Max2(guess, 1) ELSE first

\* ge_post_tax_price (no item of the tables is tax exempt)
MAX_PRICE_FOR_GE_TAX == 250000000
GE_TAX_CAP == 5000000
\* (variant: the tax rounded up)
GePostTaxCeil(price) ==
    IF price <= 0 THEN 0
    ELSE IF price >= MAX_PRICE_FOR_GE_TAX THEN Max2(price - GE_TAX_CAP, 0)
    ELSE Max2(price - ((price + SELLER_TAX_DIV - 1) \div SELLER_TAX_DIV), 0)
ge_post_tax_price(price) ==
    IF price <= 0 THEN 0
    ELSE IF price >= MAX_PRICE_FOR_GE_TAX THEN Max2(price - GE_TAX_CAP, 0)
    ELSE Max2(price - (price \div SELLER_TAX_DIV), 0)

\* the status fields the handler derives first
InvFull(status) == Len(status.inv) + (IF status.coins > 0 THEN 1 ELSE 0) >= INVENTORY_SLOTS
InvHas(status, item) == \E k \in Idx(status.inv) : status.inv[k].item_id = item
Allowed(status, type) == status.requested = {} \/ type \in status.requested

NoAction == [type |-> "none"]

RECURSIVE StaleFrom(_, _, _, _)
\* maybe_handle_stale_offers from offer k on
StaleFrom(db, status, k, t) ==
    IF k > Len(status.offers) THEN NoAction
    ELSE
    LET o == status.offers[k]
        next == StaleFrom(db, status, k + 1, t)
        inst == get_open_offer_instance(db, o.box_id)
        stale == stale_seconds(status.timeframe)
    IN
    IF ~o.active \/ o.status \notin {"buy", "sell"} \/ o.item_id <= 0 \/ o.price <= 0 \/ inst = 0 THEN next
    ELSE
    LET row == db.oi[inst]
        last_ts == IF row.last_trade_ts # NULL THEN row.last_trade_ts ELSE row.start_ts
        can_abort_sell == ~InvFull(status) \/ InvHas(status, o.item_id)
        may_abort_sell == Allowed(status, "abort") /\ can_abort_sell /\ ~should_throttle_abort(db, o.box_id, t)
        remaining == Max2(o.amount_total - o.amount_traded, 0)
        lp == Latest(o.item_id)
        desired == Max2(lp.low, min_profitable_sell_price(AvgCost(db, o.item_id)))
    IN
    IF t - last_ts < stale THEN next
    ELSE IF o.status = "sell"
    THEN IF ~Allowed(status, "sell")
         THEN IF may_abort_sell THEN build_abort(o.box_id, o.item_id, "stale sell", t) ELSE next
         ELSE IF remaining <= 0 \/ lp.low <= 0 \/ lp.high <= 0 THEN next
         ELSE IF OpenQty(db, o.item_id) > 0 /\ AvgCost(db, o.item_id) > 0 /\ desired < o.price
         THEN build_sell(o.box_id, o.item_id, desired, remaining, t, "stale fast-dump")
         ELSE IF may_abort_sell THEN build_abort(o.box_id, o.item_id, "stale sell (no trades)", t)
         ELSE next
    ELSE IF ~Allowed(status, "abort") THEN next
    ELSE IF ~(~InvFull(status) \/ status.coins > 0) THEN next
    ELSE IF should_throttle_abort(db, o.box_id, t) THEN next
    ELSE build_abort(o.box_id, o.item_id, "stale buy (no trades)", t)

\* maybe_handle_stale_offers, were a stale sell never repriced: every offer
\* is looked at as if sells were not requested
StaleNeverDumps(db, status, t) == StaleFrom(db, [status EXCEPT !.requested = {"abort"}], 1, t)

\* maybe_handle_stale_offers, were the inventory not looked at
StaleIgnoringInventory(db, status, t) == StaleFrom(db, [status EXCEPT !.inv = <<>>], 1, t)

maybe_handle_stale_offers(db, status, t) == StaleFrom(db, status, 1, t)


RECURSIVE RepriceFrom(_, _, _, _)
\* maybe_reprice_active_sell from offer k on: TRUE when the loop reaches its
\* build_abort call. The call passes name, item_id, box_id and note, and
\* build_abort has no parameter `note` and requires `reason`: it raises TypeError
RepriceFrom(db, status, k, t) ==
    IF k > Len(status.offers) THEN FALSE
    ELSE
    LET o == status.offers[k]
        next == RepriceFrom(db, status, k + 1, t)
        inst == get_open_offer_instance(db, o.box_id)
        last_ts == IF inst = 0 THEN 0
                   ELSE IF db.oi[inst].last_trade_ts # NULL THEN db.oi[inst].last_trade_ts
                   ELSE db.oi[inst].start_ts
        no_trade_for == IF Truthy(last_ts) THEN Max2(0, t - last_ts) ELSE 0
        lp == Latest(o.item_id)
        avg_buy == IF AvgCost(db, o.item_id) # 0 THEN AvgCost(db, o.item_id) ELSE lp.low
        target_market == Max2(1, lp.high - 1)
        desired == Min2(Max2(target_market, (o.price * 99) \div 100), o.price - 1)
    IN
    IF ~o.active \/ o.status # "sell" THEN next
    ELSE IF o.item_id <= 0 \/ o.price <= 0 \/ o.box_id <= 0 THEN next
    ELSE IF Max2(o.amount_total - o.amount_traded, 0) <= 0 THEN next
    ELSE IF no_trade_for < stale_seconds(status.timeframe) THEN next
    ELSE IF lp.high <= 0 \/ lp.low <= 0 THEN next
    ELSE IF o.price <= target_market + 2 THEN next
    ELSE IF desired - avg_buy - seller_tax(desired) <= 0 THEN next
    ELSE TRUE

maybe_reprice_active_sell_raises(db, status, t) == RepriceFrom(db, status, 1, t)

\* the offers of the status
offer_is_empty(o) == o.status = "empty"
offer_is_done(o) == o.status # "empty" /\ ~o.active
EmptySlots(status) == {k \in Idx(status.offers) : offer_is_empty(status.offers[k])}
DoneSlots(status) == {k \in Idx(status.offers) : offer_is_done(status.offers[k])}
FirstOf(S) == CHOOSE k \in S : \A j \in S : k <= j
active_offer_item_ids(status) ==
    {status.offers[k].item_id : k \in {j \in Idx(status.offers) : status.offers[j].active /\ status.offers[j].item_id > 0}}

\* what one request leaves: the ledger, the queue, the reply; hung = the
\* request waits for _db_lock for ever and is never answered
Outcome(db, queue, reply, record, hung) ==
    [db |-> IF record THEN record_recommendation(db, reply) ELSE db,
     queue |-> queue, reply |-> reply, hung |-> hung]

\* Case A: no empty slot and a done offer: abort on the first done slot
CaseA(db, queue, status, t) ==
    LET o == status.offers[FirstOf(DoneSlots(status))] IN
    IF o.status = "sell" /\ InvFull(status) /\ status.coins <= 0
    THEN Outcome(db, queue, build_wait("inventory full, cannot collect gp"), FALSE, FALSE)
    ELSE IF o.status = "buy" /\ InvFull(status) /\ ~InvHas(status, o.item_id)
    THEN Outcome(db, queue, build_wait("inventory full, cannot collect items"), FALSE, FALSE)
    ELSE IF should_throttle_abort(db, o.box_id, t)
    THEN Outcome(db, queue, build_wait("abort throttled"), FALSE, FALSE)
    ELSE Outcome(db, queue, build_abort(o.box_id, o.item_id, "done offer", t), TRUE, FALSE)

\* Case B: no empty slot and no done offer: abort the oldest stuck buy. The
\* abort is recorded inside `with _db_lock`, and record_recommendation takes
\* the same non-reentrant lock: the request never returns
StuckBuys(db, t) ==
    {i \in Idx(db.oi) :
        /\ db.oi[i].done_ts = NULL /\ db.oi[i].active /\ db.oi[i].status = "buy"
        /\ db.oi[i].last_traded = 0 /\ db.oi[i].start_ts <= t - STUCK_BUY_ABORT_SECONDS}
OldestStuck(db, t) == {i \in StuckBuys(db, t) : \A j \in StuckBuys(db, t) : db.oi[i].start_ts <= db.oi[j].start_ts}
CaseBRow(db, queue, status, t, i) ==
    IF ~(~InvFull(status) \/ status.coins > 0)
    THEN Outcome(db, queue, build_wait("inventory full, cannot abort buy"), FALSE, FALSE)
    ELSE IF ~should_throttle_abort(db, db.oi[i].box_id, t)
    THEN Outcome(db, queue, build_abort(db.oi[i].box_id, db.oi[i].item_id, "stuck buy", t), FALSE, TRUE)
    ELSE Outcome(db, queue, build_wait("no stuck-buy abort candidate"), FALSE, FALSE)
CaseB(db, queue, status, t) ==
    IF StuckBuys(db, t) = {}
    THEN {Outcome(db, queue, build_wait("no stuck-buy abort candidate"), FALSE, FALSE)}
    ELSE {CaseBRow(db, queue, status, t, i) : i \in OldestStuck(db, t)}


RECURSIVE SellInventoryFrom(_, _, _, _)
\* priority 1 from inventory entry k on: the sell action, or NoAction
SellInventoryFrom(db, status, k, t) ==
    IF k > Len(status.inv) THEN NoAction
    ELSE
    LET iid == status.inv[k].item_id
        amt == status.inv[k].amount
        next == SellInventoryFrom(db, status, k + 1, t)
        lp == Latest(iid)
        slot == status.offers[FirstOf(EmptySlots(status))].box_id
        sell_price == Max2(lp.high - 1, 1)
    IN
    IF iid \in status.blocked \/ iid \in active_offer_item_ids(status) THEN next
    ELSE IF ~InTables(iid) \/ lp.high <= 0 \/ lp.low <= 0 THEN next
    ELSE IF OpenQty(db, iid) > 0 /\ AvgCost(db, iid) > 0
    THEN IF sell_price - AvgCost(db, iid) - seller_tax(sell_price) <= 0 THEN next
         ELSE build_sell(slot, iid, sell_price, amt, t, "inventory (tracked)")
    ELSE IF amt * 1440 <= 2 * Volume(iid)          \* mins <= FAST_SELL_TARGET_MINUTES
    THEN build_sell(slot, iid, Max2(lp.low, 1), amt, t, "inventory fast-sell (untracked)")
    ELSE next

\* the buy candidate, were the quantity not clipped to what the buy limit leaves
CandidateUnclipped(db, status, item, per_slot_budget, t) ==
    LET lp == Latest(item)
        buy_price == lp.low
        sell_price == Max2(lp.high - 1, 1)
        profit_per == sell_price - buy_price - seller_tax(sell_price)
        qty0 == per_slot_budget \div buy_price
        remaining == BuyLimit(item) - db_bought_qty_in_window(db, item, t - BUY_LIMIT_RESET_SECONDS)
        qty == qty0
        tf == status.timeframe
    IN
    IF item \in status.blocked THEN NoAction
    ELSE IF item \in active_offer_item_ids(status) \/ ~InTables(item) THEN NoAction
    ELSE IF ~(MIN_DAILY_VOLUME <= Volume(item) /\ Volume(item) <= MAX_DAILY_VOLUME) THEN NoAction
    ELSE IF lp.low <= 0 \/ lp.high <= 0 \/ lp.low < MIN_BUY_PRICE THEN NoAction
    ELSE IF sell_price - buy_price < MIN_MARGIN_GP THEN NoAction
    ELSE IF profit_per < Max2(1, min_margin_eff(tf)) THEN NoAction
    ELSE IF profit_per * 10000 < min_roi_eff(tf) * buy_price THEN NoAction     \* roi < min_roi_eff
    ELSE IF profit_per * 10 > 4 * buy_price THEN NoAction                      \* roi > MAX_ROI
    ELSE IF qty0 <= 0 THEN NoAction
    ELSE IF BuyLimit(item) # NULL /\ remaining <= 0 THEN NoAction
    ELSE IF qty <= 0 THEN NoAction
    ELSE IF qty * 1440 > max_buy_mins(tf) * Volume(item) THEN NoAction          \* too slow
    ELSE [type |-> "candidate", item_id |-> item, price |-> buy_price, quantity |-> qty,
          expected_profit |-> profit_per * qty]

\* priority 3: the buy candidate of one priced item, or NoAction
Candidate(db, status, item, per_slot_budget, t) ==
    LET lp == Latest(item)
        buy_price == lp.low
        sell_price == Max2(lp.high - 1, 1)
        profit_per == sell_price - buy_price - seller_tax(sell_price)
        qty0 == per_slot_budget \div buy_price
        remaining == BuyLimit(item) - db_bought_qty_in_window(db, item, t - BUY_LIMIT_RESET_SECONDS)
        qty == IF BuyLimit(item) # NULL /\ qty0 > remaining THEN remaining ELSE qty0
        tf == status.timeframe
    IN
    IF item \in status.blocked THEN NoAction
    ELSE IF item \in active_offer_item_ids(status) \/ ~InTables(item) THEN NoAction
    ELSE IF ~(MIN_DAILY_VOLUME <= Volume(item) /\ Volume(item) <= MAX_DAILY_VOLUME) THEN NoAction
    ELSE IF lp.low <= 0 \/ lp.high <= 0 \/ lp.low < MIN_BUY_PRICE THEN NoAction
    ELSE IF sell_price - buy_price < MIN_MARGIN_GP THEN NoAction
    ELSE IF profit_per < Max2(1, min_margin_eff(tf)) THEN NoAction
    ELSE IF profit_per * 10000 < min_roi_eff(tf) * buy_price THEN NoAction     \* roi < min_roi_eff
    ELSE IF profit_per * 10 > 4 * buy_price THEN NoAction                      \* roi > MAX_ROI
    ELSE IF qty0 <= 0 THEN NoAction
    ELSE IF BuyLimit(item) # NULL /\ remaining <= 0 THEN NoAction
    ELSE IF qty <= 0 THEN NoAction
    ELSE IF qty * 1440 > max_buy_mins(tf) * Volume(item) THEN NoAction          \* too slow
    ELSE [type |-> "candidate", item_id |-> item, price |-> buy_price, quantity |-> qty,
          expected_profit |-> profit_per * qty]

\* score = (expected_profit / m) * 1.7 / sqrt(m), m = max(mins, 0.25): with
\* m = M / (4 * volume), M = max(quantity * 5760, volume), the scores compare as
\* expected_profit^2 / m^3. Candidates within a quarter of a minute (M = volume)
\* compare by expected_profit
SlowFactor(c) == Max2(c.quantity * 5760, Volume(c.item_id))
ScoreAbove(a, b) ==
    IF SlowFactor(a) = Volume(a.item_id) /\ SlowFactor(b) = Volume(b.item_id)
    THEN a.expected_profit > b.expected_profit
    ELSE LET ma == SlowFactor(a) * Volume(b.item_id)
             mb == SlowFactor(b) * Volume(a.item_id)
         IN a.expected_profit * a.expected_profit * mb * mb * mb
                > b.expected_profit * b.expected_profit * ma * ma * ma

\* candidates.sort(key = score, reverse = True): stable, ties keep table order
SortByScore(cs) ==
    LET pos(i) == 1 + Cardinality({j \in Idx(cs) :
                        ScoreAbove(cs[j], cs[i]) \/ (~ScoreAbove(cs[i], cs[j]) /\ j < i)})
    IN [p \in Idx(cs) |-> cs[CHOOSE i \in Idx(cs) : pos(i) = p]]

FilterSeq(sq, keep(_)) ==
    LET F[k \in 0 .. Len(sq)] ==
            IF k = 0 THEN <<>> ELSE IF keep(sq[k]) THEN Append(F[k - 1], sq[k]) ELSE F[k - 1]
    IN F[Len(sq)]

\* priority 3: new buys. The best candidate is answered and recorded, the
\* next slots_open - 1 are left in the queue
NewBuys(db, queue, status, t) ==
    LET slots_open == Cardinality(EmptySlots(status))
        slot == status.offers[FirstOf(EmptySlots(status))].box_id
        budget_total == Min2((status.coins * 9) \div 10, BUY_BUDGET_CAP)
        per_slot_budget == Max2(budget_total \div Max2(slots_open, 1), 1)
        all == [k \in Idx(LatestItems) |-> Candidate(db, status, LatestItems[k], per_slot_budget, t)]
        IsCandidate(c) == c.type = "candidate"
        candidates == SortByScore(FilterSeq(all, IsCandidate))
        top == SubSeq(candidates, 1, Min2(Len(candidates), Max2(slots_open, 1)))
        buy_q == [k \in Idx(top) |-> build_buy(slot, top[k].item_id, top[k].price, top[k].quantity, t)]
    IN
    IF budget_total <= 0 THEN Outcome(db, queue, build_wait("no cash"), FALSE, FALSE)
    ELSE IF candidates = <<>> THEN Outcome(db, queue, build_wait("no buy candidates"), FALSE, FALSE)
    ELSE Outcome(db, Tail(buy_q), buy_q[1], TRUE, FALSE)

\* the priorities after the sync, the stale offers and the crash guard
Priorities(db, queue, status, t) ==
    LET slots_open == Cardinality(EmptySlots(status))
        sell == SellInventoryFrom(db, status, 1, t)
    IN
    IF slots_open <= 0 /\ DoneSlots(status) # {} THEN {CaseA(db, queue, status, t)}
    ELSE IF slots_open <= 0 THEN CaseB(db, queue, status, t)
    ELSE IF sell # NoAction THEN {Outcome(db, queue, sell, TRUE, FALSE)}
    ELSE IF queue # <<>>
    THEN {Outcome(db, Tail(queue),
                  [queue[1] EXCEPT !.box_id = status.offers[FirstOf(EmptySlots(status))].box_id],
                  TRUE, FALSE)}
    ELSE IF ~status.sell_only THEN {NewBuys(db, queue, status, t)}
    ELSE {Outcome(db, queue, build_wait("no actionable move"), FALSE, FALSE)}

\* an entry of the offers array that is not a JSON object (a number, a
\* string, null): every o.get(...) on it raises AttributeError
NotObject ==
    [box_id |-> 0, status |-> "not an object", active |-> FALSE, item_id |-> 0, price |-> 0,
     amount_total |-> 0, amount_traded |-> 0]

\* sync_offers_and_fills raises: str(o.get("status", "")) is outside any try.
\* The connection is closed without a commit, the ledger stays as it was
sync_raises(offers) == \E k \in Idx(offers) : offers[k] = NotObject

\* active_offer_item_ids raises on the same entries; the stale handler and
\* the crash guard skip them (their o.get calls are inside try/except)
active_offer_item_ids_raises(offers) == \E k \in Idx(offers) : offers[k] = NotObject

\* the handler after the crash guard raised, were the exception not to reach
\* the request boundary
AfterSyncGuardIgnored(db, queue, status, t) ==
    LET stale == maybe_handle_stale_offers(db, status, t) IN
    IF stale # NoAction THEN {Outcome(db, queue, stale, TRUE, FALSE)}
    ELSE IF active_offer_item_ids_raises(status.offers)
    THEN {Outcome(db, queue, build_wait("server issue"), FALSE, FALSE)}
    ELSE Priorities(db, queue, status, t)

\* suggestion(): what the request may leave, from the ledger after the sync.
\* An exception of the crash guard or of a later step reaches the handler's
\* `except Exception` and the reply is the wait "server issue"
AfterSync(db, queue, status, t) ==
    LET stale == maybe_handle_stale_offers(db, status, t) IN
    IF stale # NoAction THEN {Outcome(db, queue, stale, TRUE, FALSE)}
    ELSE IF maybe_reprice_active_sell_raises(db, status, t)
    THEN {Outcome(db, queue, build_wait("server issue"), FALSE, FALSE)}
    ELSE IF active_offer_item_ids_raises(status.offers)
    THEN {Outcome(db, queue, build_wait("server issue"), FALSE, FALSE)}
    ELSE Priorities(db, queue, status, t)

\* the suggestion, were it chosen before the offers are reconciled
SuggestionBeforeSync(db, queue, status, t) == AfterSync(db, queue, status, t)

\* an exception of the sync is caught and logged at the call, and the
\* request goes on
suggestion(db, queue, status, t) ==
    IF sync_raises(status.offers) THEN AfterSync(db, queue, status, t)
    ELSE UNION {AfterSync(d, queue, status, t) : d \in sync_offers_and_fills(db, status.offers, t)}


\* the statuses a client sends: two slots, with coins or with five of the
\* item in the inventory; no timeframe (5 minutes), any
\* suggestion type requested, no blocked item, nothing skipped
SuggestOffers ==
    { <<EmptyOffer(0), EmptyOffer(1)>>,
      <<EmptyOffer(0), Offer(1, "sell", 600, 5, 0, TRUE)>>,
      <<Offer(0, "buy", 500, 5, 0, TRUE), Offer(1, "sell", 600, 5, 0, TRUE)>>,
      <<Offer(0, "buy", 500, 5, 5, TRUE), Offer(1, "sell", 600, 5, 0, TRUE)>> }
Status(offers, coins, inv) ==
    [offers |-> offers, coins |-> coins, inv |-> inv, timeframe |-> DEFAULT_TIMEFRAME,
     requested |-> {}, sell_only |-> FALSE, blocked |-> {}]
SuggestMenu ==
    {Status(offers, 10000, <<>>) : offers \in SuggestOffers}
    \cup {Status(offers, 0, <<[item_id |-> ItemId, amount |-> 5]>>) : offers \in SuggestOffers}

\* one /suggestion request: update_last_status, then the handler; a request
\* that finds _db_lock held for ever is not modelled as answered. The handler
\* never reads LAST_STATUS: it is kept where `track` says so
Suggestion(menu, m, r, track) ==
    \E status \in menu :
      \E out \in suggestion(DB, buy_queue, status, now) :
        /\ ~db_lock_held
        /\ WithinBounds(out.db, m)
        /\ Len(out.db.recs) <= r
        /\ SetLedger(out.db)
        /\ buy_queue' = out.queue
        /\ last_reply' = IF out.hung THEN NoReply ELSE out.reply
        /\ db_lock_held' = out.hung
        /\ last_offers' = IF track THEN status.offers ELSE <<>>
        /\ last_items' = IF track
                         THEN [coins |-> status.coins, inv |-> status.inv, timeframe |-> status.timeframe,
                               requested |-> status.requested, sell_only |-> status.sell_only,
                               updated_unix |-> now]
                         ELSE NoItems
        /\ UNCHANGED <<request_vars, now, pt_vars, cache_vars>>

SuggestionStep == Suggestion(SuggestMenu, RecInstances, SugRecs, FALSE)

NextSuggest == SuggestionStep \/ Tick

SpecSuggest == InitLedger /\ [][NextSuggest]_vars

\* the fields of a suggestion the client acts on
SameSuggestion(a, b) ==
    /\ a.type = b.type
    /\ a.box_id = b.box_id
    /\ a.item_id = b.item_id
    /\ a.price = b.price
    /\ a.quantity = b.quantity

\* the answered requests the server may make of a status now
Answers(db, queue, status) == {o \in suggestion(db, queue, status, now) : ~o.hung}

\* the status sent again at once, with the same price tables and no other
\* request in between, is answered with the suggestion answered first
ReplaySame(status, first) ==
    \A again \in suggestion(first.db, first.queue, status, now) :
        ~again.hung /\ SameSuggestion(first.reply, again.reply)

\* C8 as stated: whatever the server's state and the status are, the status
\* sent twice in a row gets the same suggestion (type, box_id, item_id, price,
\* quantity) both times
C8_AsStated ==
    ~db_lock_held =>
        \A status \in SuggestMenu : \A first \in Answers(DB, buy_queue, status) :
            ReplaySame(status, first)

\* the first answer is no abort, and the buy queue is empty before and after it
Settled(first) == first.reply.type # "abort" /\ buy_queue = <<>> /\ first.queue = <<>>

\* C8 amended: the status sent twice in a row gets the same suggestion both
\* times when the first answer is not an abort and the buy queue is empty
\* before and after it. (An abort is recorded and throttles the abort of the
\* replay; a buy taken from or leaving queued buys is followed by another buy.)
C8_ReplaySameSuggestion ==
    ~db_lock_held =>
        \A status \in SuggestMenu : \A first \in Answers(DB, buy_queue, status) :
            Settled(first) => ReplaySame(status, first)

\* a buy answered twice in a row from an empty queue: two recs of the same
\* buy issued at the same second, the second one the last reply
C8_Witness ==
    /\ buy_queue = <<>>
    /\ last_reply.type = "buy"
    /\ Len(recommendations) >= 2
    /\ LET a == recommendations[Len(recommendations) - 1]
           b == recommendations[Len(recommendations)]
       IN /\ a.rec_type = "buy" /\ b.rec_type = "buy"
          /\ a.issued_ts = b.issued_ts /\ b.issued_ts = now
          /\ a.box_id = b.box_id /\ a.item_id = b.item_id
          /\ a.price = b.price /\ a.qty = b.qty
          /\ b.item_id = last_reply.item_id /\ b.qty = last_reply.quantity

----------------------------------------------------------------------------
(* The profit-tracking ledger *)

MaxFlips == 3           \* rows of pt_flips
MaxTx == 3              \* transaction ids a client sends
MaxOpened == 12         \* opened_qty of a flip

PT == [flips |-> pt_flips, txs |-> pt_transactions]

\* _pt_get_open_flip: the rows the query may return, the open flips of the
\* item updated last (ORDER BY updated_time DESC LIMIT 1)
OpenFlips(pt, item) ==
    {f \in Idx(pt.flips) :
        pt.flips[f].item_id = item /\ pt.flips[f].deleted = 0 /\ pt.flips[f].status_ord # 2}
pt_get_open_flip(pt, item) ==
    {f \in OpenFlips(pt, item) :
        \A g \in OpenFlips(pt, item) : pt.flips[g].updated_time <= pt.flips[f].updated_time}

\* _pt_create_flip
FlipRow(item, opened_time, status_ord, t) ==
    [item_id |-> item, opened_time |-> opened_time, opened_qty |-> 0, spent |-> 0,
     closed_time |-> 0, closed_qty |-> 0, received_post_tax |-> 0, profit |-> 0, tax_paid |-> 0,
     status_ord |-> status_ord, updated_time |-> t, deleted |-> 0]
pt_create_flip(pt, item, opened_time, status_ord, t) ==
    [pt EXCEPT !.flips = Append(@, FlipRow(item, opened_time, status_ord, t))]

\* _pt_estimate_cost_basis: the open lots' average cost, else the price of
\* the last buy fill (any of the newest), else latest low, else latest high
pt_estimate_cost_basis(db, item) ==
    LET F == {i \in Idx(db.bf) : db.bf[i].item_id = item}
        newest == {i \in F : \A j \in F : db.bf[j].fill_ts <= db.bf[i].fill_ts}
        lp == Latest(item)
        fallback == IF lp.low > 0 THEN lp.low ELSE IF lp.high > 0 THEN lp.high ELSE 0
    IN
    IF OpenQty(db, item) > 0 /\ AvgCost(db, item) > 0 THEN {AvgCost(db, item)}
    ELSE IF F = {} THEN {fallback}
    ELSE {IF db.bf[i].buy_price > 0 THEN db.bf[i].buy_price ELSE fallback : i \in newest}

\* _pt_apply_buy
pt_apply_buy(flip, qty, price, ts) ==
    [flip EXCEPT !.opened_qty = @ + qty,
                 !.spent = @ + price * qty,
                 !.status_ord = IF flip.closed_qty = 0 THEN 0 ELSE 1,
                 !.updated_time = ts]

\* _pt_apply_sell with the estimate `estimate` of the cost basis
ApplySellAt(flip, sell_qty, price, ts, estimate) ==
    LET basis == IF estimate <= 0 THEN price ELSE estimate
        extra == (flip.closed_qty + sell_qty) - flip.opened_qty
        opened_qty == IF flip.opened_qty <= 0 THEN sell_qty
                      ELSE IF extra > 0 THEN flip.opened_qty + extra
                      ELSE flip.opened_qty
        spent == IF flip.opened_qty <= 0 THEN basis * sell_qty
                 ELSE IF extra > 0 THEN flip.spent + basis * extra
                 ELSE flip.spent
        post_tax_price == ge_post_tax_price(price)
        received_post_tax == flip.received_post_tax + post_tax_price * sell_qty
        closed_qty == flip.closed_qty + sell_qty
    IN [flip EXCEPT !.opened_qty = opened_qty,
                    !.spent = spent,
                    !.closed_time = ts,
                    !.closed_qty = closed_qty,
                    !.received_post_tax = received_post_tax,
                    !.tax_paid = @ + (price - post_tax_price) * sell_qty,
                    !.profit = received_post_tax - spent,
                    !.status_ord = IF closed_qty >= opened_qty THEN 2 ELSE 1,
                    !.updated_time = ts]

\* _pt_apply_sell
pt_apply_sell(db, flip, sell_qty, price, ts) ==
    {ApplySellAt(flip, sell_qty, price, ts, b) : b \in pt_estimate_cost_basis(db, flip.item_id)}

\* the bound of an INTEGER column. sqlite3 raises OverflowError when a value
\* bound to a statement is outside 64 bits; the integers of the model have 32,
\* and SqliteMax stands for 2^63 - 1, HugePrice for a price of 2^62
SqliteMax == 2147483647
HugePrice == SqliteMax \div 2 + 1
Fits(a, b) == b = 0 \/ a <= SqliteMax \div b

\* the UPDATE of _pt_apply_buy or _pt_apply_sell raises: spent, or what the
\* sell receives, does not fit the column
PtRaises(flip, quantity, price) ==
    IF quantity > 0 THEN ~Fits(price, quantity) \/ flip.spent > SqliteMax - price * quantity
    ELSE \/ ~Fits(ge_post_tax_price(price), -quantity)
         \/ flip.received_post_tax > SqliteMax - ge_post_tax_price(price) * (-quantity)

\* the flip after the transaction of quantity, price and time
PtApply(db, flip, quantity, price, time) ==
    IF quantity > 0 THEN {pt_apply_buy(flip, quantity, price, time)}
    ELSE pt_apply_sell(db, flip, -quantity, price, time)

TxRow(t, flip_uuid) ==
    [tx_id |-> t.id, flip_uuid |-> flip_uuid, time |-> t.time, item_id |-> t.item_id,
     quantity |-> t.quantity, price |-> t.price]

\* (variant: no look-up of the tx_id)
IngestOneNoDedupe(pt, db, t, nowt) ==
    IF t.item_id <= 0 \/ t.price <= 0 \/ t.quantity = 0 THEN {pt}
    ELSE
    LET open == pt_get_open_flip(pt, t.item_id)
        found == IF open = {}
                 THEN {<<pt_create_flip(pt, t.item_id, t.time, IF t.quantity > 0 THEN 0 ELSE 1, nowt),
                         Len(pt.flips) + 1>>}
                 ELSE {<<pt, f>> : f \in open}
    IN UNION {IF PtRaises(w[1].flips[w[2]], t.quantity, t.price) THEN {w[1]}
              ELSE {[flips |-> [w[1].flips EXCEPT ![w[2]] = flip], txs |-> Append(w[1].txs, TxRow(t, w[2]))] :
                       flip \in PtApply(db, w[1].flips[w[2]], t.quantity, t.price, t.time)} : w \in found}

\* the body of the loop of _pt_ingest_transactions for one transaction. The
\* flip is created and committed before the transaction is applied: when the
\* apply raises, the loop goes on with the next one and the new flip stays
IngestOne(pt, db, t, nowt) ==
    IF \E k \in Idx(pt.txs) : pt.txs[k].tx_id = t.id THEN {pt}
    ELSE IF t.item_id <= 0 \/ t.price <= 0 \/ t.quantity = 0 THEN {pt}
    ELSE
    LET open == pt_get_open_flip(pt, t.item_id)
        found == IF open = {}
                 THEN {<<pt_create_flip(pt, t.item_id, t.time, IF t.quantity > 0 THEN 0 ELSE 1, nowt),
                         Len(pt.flips) + 1>>}
                 ELSE {<<pt, f>> : f \in open}
    IN UNION {IF PtRaises(w[1].flips[w[2]], t.quantity, t.price) THEN {w[1]}
              ELSE {[flips |-> [w[1].flips EXCEPT ![w[2]] = flip], txs |-> Append(w[1].txs, TxRow(t, w[2]))] :
                       flip \in PtApply(db, w[1].flips[w[2]], t.quantity, t.price, t.time)} : w \in found}

\* sorted(txs, key = time): stable
SortByTime(txs) ==
    LET pos(i) == 1 + Cardinality({j \in Idx(txs) :
                        txs[j].time < txs[i].time \/ (txs[j].time = txs[i].time /\ j < i)})
    IN [p \in Idx(txs) |-> txs[CHOOSE i \in Idx(txs) : pos(i) = p]]

RECURSIVE IngestLoop(_, _, _, _, _)
IngestLoop(pt, db, txs, k, nowt) ==
    IF k > Len(txs) THEN {pt}
    ELSE UNION {IngestLoop(q, db, txs, k + 1, nowt) : q \in IngestOne(pt, db, txs[k], nowt)}

\* _pt_ingest_transactions
pt_ingest_transactions(pt, db, txs, nowt) == IngestLoop(pt, db, SortByTime(txs), 1, nowt)

\* orphan_transaction of a stored transaction, row k: a new flip of its own.
\* The new flip and the transaction's flip_uuid are committed before the apply
pt_orphan_transaction(pt, db, k, nowt) ==
    LET tx == pt.txs[k]
        made == pt_create_flip(pt, tx.item_id, tx.time, IF tx.quantity > 0 THEN 0 ELSE 1, nowt)
        new_flip == Len(made.flips)
        moved == [made EXCEPT !.txs[k].flip_uuid = new_flip]
    IN IF PtRaises(made.flips[new_flip], tx.quantity, tx.price) THEN {moved}
       ELSE {[moved EXCEPT !.flips[new_flip] = flip] :
                flip \in PtApply(db, made.flips[new_flip], tx.quantity, tx.price, tx.time)}

\* the transactions a client reports: five bought at 100, two or five sold at
\* 110, and two bought at a price no column holds twice
TxMenu(t) ==
    {[id |-> i, item_id |-> ItemId, quantity |-> k[1], price |-> k[2], time |-> t] :
        i \in 1 .. MaxTx,
        k \in {<<5, 100>>, <<-2, 110>>, <<-5, 110>>, <<2, HugePrice>>}}

\* the requests of the model carry one or two transactions
Batches(menu) == {<<a>> : a \in menu} \cup {<<a, b>> : a \in menu, b \in menu}

SetPT(pt) ==
    /\ Len(pt.flips) <= MaxFlips
    /\ \A f \in Idx(pt.flips) : pt.flips[f].opened_qty <= MaxOpened
    /\ pt_flips' = pt.flips
    /\ pt_transactions' = pt.txs
    /\ UNCHANGED <<request_vars, now, ledger_vars, last_offers, engine_vars, cache_vars>>

\* POST /profit-tracking/client-transactions
Ingest(batches) ==
    /\ ~db_lock_held
    /\ \E txs \in batches :
         \E pt \in pt_ingest_transactions(PT, DB, txs, now) : SetPT(pt)

IngestPT == Ingest(Batches(TxMenu(now)))

\* POST /profit-tracking/orphan-transaction
Orphan ==
    /\ ~db_lock_held
    /\ \E k \in Idx(pt_transactions) :
         \E pt \in pt_orphan_transaction(PT, DB, k, now) : SetPT(pt)

\* POST /profit-tracking/delete-transaction: the row goes, the flips stay
pt_delete_transaction(pt, tx_id) ==
    [pt EXCEPT !.txs = SelectSeq(@, LAMBDA row : row.tx_id # tx_id)]

Delete ==
    /\ ~db_lock_held
    /\ \E k \in Idx(pt_transactions) : SetPT(pt_delete_transaction(PT, pt_transactions[k].tx_id))

NextPT == IngestPT \/ Orphan \/ Tick

SpecPT == InitLedger /\ [][NextPT]_vars

\* C10: every flip has profit = received_post_tax - spent, after any ingest
\* and orphan_transaction operations (buys, sells, buys after partial sells)
C10_ProfitIdentity ==
    \A f \in Idx(pt_flips) :
        pt_flips[f].profit = pt_flips[f].received_post_tax - pt_flips[f].spent

\* what the code keeps of it: the finished flips, which got their profit from
\* the sell that finished them, have profit = received_post_tax - spent
C10_FinishedFlips ==
    \A f \in Idx(pt_flips) :
        pt_flips[f].status_ord = 2 =>
            pt_flips[f].profit = pt_flips[f].received_post_tax - pt_flips[f].spent

\* a flip bought, partly sold and bought again, and a transaction orphaned
C10_Witness ==
    /\ \E f \in Idx(pt_flips) :
          /\ pt_flips[f].opened_qty = 10 /\ pt_flips[f].closed_qty = 2
          /\ pt_flips[f].profit # pt_flips[f].received_post_tax - pt_flips[f].spent
    /\ Len(pt_flips) > 1

----------------------------------------------------------------------------
(* Profit tracking with transactions deleted *)

DelTx == 2              \* transaction ids, where transactions are deleted

\* five bought at 100 or sold at 110, one transaction a request
DeleteMenu(t) ==
    {[id |-> i, item_id |-> ItemId, quantity |-> k[1], price |-> k[2], time |-> t] :
        i \in 1 .. DelTx, k \in {<<5, 100>>, <<-5, 110>>}}

IngestSingle == Ingest({<<a>> : a \in DeleteMenu(now)})

NextPTDelete == IngestSingle \/ Orphan \/ Delete

SpecPTDelete == InitLedger /\ [][NextPTDelete]_vars

\* what C11 asks of one flip
FlipQuantitiesOk(flip) ==
    /\ flip.closed_qty <= flip.opened_qty
    /\ flip.closed_qty >= flip.opened_qty => flip.status_ord = 2

\* a FINISHED flip stays FINISHED over the step
FinishedStays == \A f \in Idx(pt_flips) : pt_flips[f].status_ord = 2 => pt_flips'[f].status_ord = 2

\* C11: after each ingest or orphan_transaction, every flip has closed_qty <=
\* opened_qty, and closed_qty >= opened_qty implies FINISHED; a FINISHED flip
\* never returns to BUYING or SELLING
C11_FlipQuantities ==
    [][FinishedStays /\ \A f \in Idx(pt_flips') : FlipQuantitiesOk(pt_flips'[f])]_vars

\* the same for the flips a transaction was applied to: the flip that
\* _pt_create_flip wrote for a transaction whose apply raised is left out
C11_AppliedFlips ==
    [][FinishedStays /\ \A f \in Idx(pt_flips') :
          pt_flips'[f].opened_qty > 0 => FlipQuantitiesOk(pt_flips'[f])]_vars

\* a flip finished by a sell of what was bought, next to a flip left
\* empty by a buy that was not applied
C11_Witness ==
    /\ \E f \in Idx(pt_flips) :
          pt_flips[f].status_ord = 2 /\ pt_flips[f].opened_qty = 5 /\ pt_flips[f].closed_qty = 5
    /\ \E f \in Idx(pt_flips) :
          pt_flips[f].opened_qty = 0 /\ pt_flips[f].closed_qty = 0 /\ pt_flips[f].status_ord = 0

\* the open flips of the item, now and after the step
OpenNow == OpenFlips(PT, ItemId)
OpenNext == OpenFlips([flips |-> pt_flips', txs |-> pt_transactions'], ItemId)

\* C12: for every (display_name, item_id) at most one flip has deleted = 0 and
\* a status other than FINISHED, after any ingest, orphan_transaction and
\* delete_transaction operations
C12_OneOpenFlip == Cardinality(OpenNow) <= 1

\* the step moves a stored transaction to another flip: orphan_transaction
OrphanStep ==
    \E a \in Idx(pt_transactions), b \in Idx(pt_transactions') :
        /\ pt_transactions[a].tx_id = pt_transactions'[b].tx_id
        /\ pt_transactions[a].flip_uuid # pt_transactions'[b].flip_uuid

\* ingest and delete_transaction never add a second open flip: only
\* orphan_transaction does
C12_OnlyOrphanAdds ==
    [][~OrphanStep => Cardinality(OpenNext) <= Max2(1, Cardinality(OpenNow))]_vars

\* two open flips of the item, and the transactions that made them deleted
C12_Witness == Cardinality(OpenNow) = 2 /\ pt_transactions = <<>>


----------------------------------------------------------------------------
(* Ingest alone *)

IngestIds == 2          \* transaction ids, where transactions are only ingested

\* five bought at 100 a second ago or at 120 now, five or two sold at 110 now
PlainMenu(t) ==
    {[id |-> i, item_id |-> ItemId, quantity |-> k[1], price |-> k[2], time |-> t - k[3]] :
        i \in 1 .. IngestIds, k \in {<<5, 100, 1>>, <<5, 120, 0>>, <<-5, 110, 0>>, <<-2, 110, 0>>}}

IngestPlain == Ingest(Batches(PlainMenu(now)))

NextIngest == IngestPlain \/ Tick

SpecIngest == InitLedger /\ [][NextIngest]_vars

Stored(id) == \E k \in Idx(pt_transactions) : pt_transactions[k].tx_id = id
IngestNow(txs) == pt_ingest_transactions(PT, DB, txs, now)

\* C13: ingesting a transaction whose tx_id is stored adds no pt_transactions
\* row and changes no flip, in a later call (alone, or before or after another
\* transaction of the batch) and within one batch (of two transactions with
\* one tx_id only the one the loop takes first is applied)
C13_DuplicateIgnored ==
    \A a \in PlainMenu(now), b \in PlainMenu(now) :
        /\ Stored(a.id) => /\ IngestNow(<<a>>) = {PT}
                           /\ IngestNow(<<a, b>>) = IngestNow(<<b>>)
                           /\ IngestNow(<<b, a>>) = IngestNow(<<b>>)
        /\ a.id = b.id => IngestNow(<<a, b>>) = IngestNow(<<SortByTime(<<a, b>>)[1]>>)

\* the buy of transaction 1 is stored and its flip holds that buy alone, with
\* sells of the same tx_id on the menu
C13_Witness ==
    /\ Len(pt_transactions) = 1 /\ pt_transactions[1].tx_id = 1 /\ pt_transactions[1].quantity = 5
    /\ Len(pt_flips) = 1 /\ pt_flips[1].opened_qty = 5 /\ pt_flips[1].closed_qty = 0
    /\ now > StartTs

\* a buy of q at b a second ago and a sell of q at s now, of tx_ids not in use
ScenarioBuy(q, b) ==
    [id |-> IngestIds + 1, item_id |-> ItemId, quantity |-> q, price |-> b, time |-> now - 1]
ScenarioSell(q, s) ==
    [id |-> IngestIds + 2, item_id |-> ItemId, quantity |-> -q, price |-> s, time |-> now]

\* pt has one flip more than the ledger, the flip C14 describes
OneFlipMore(pt, q, b, s) ==
    /\ Len(pt.flips) = Len(pt_flips) + 1
    /\ SubSeq(pt.flips, 1, Len(pt_flips)) = pt_flips
    /\ LET flip == pt.flips[Len(pt.flips)]
           tax == (s * 2) \div 100
       IN /\ flip.opened_qty = q /\ flip.spent = q * b
          /\ flip.closed_qty = q
          /\ flip.received_post_tax = q * (s - tax)
          /\ flip.tax_paid = q * tax
          /\ flip.profit = flip.received_post_tax - flip.spent
          /\ flip.status_ord = 2
          /\ (q = 5 /\ b = 100 /\ s = 110) =>
                 (flip.received_post_tax = 540 /\ flip.tax_paid = 10 /\ flip.profit = 40)

\* C14: with no open flip of the item, a buy of q at b followed by time by a
\* sell of q at s < 250 000 000, in one batch in either order or in two calls,
\* yields exactly one flip: opened_qty = q, spent = q * b, closed_qty = q,
\* received_post_tax = q * (s - floor(s * 0.02)), tax_paid = q * floor(s * 0.02),
\* profit = received_post_tax - spent, FINISHED (5, 100, 110: 540, 10, 40)
C14_BuyThenSellFlip ==
    OpenNow = {} =>
        \A q \in {1, 5}, b \in {100, 120}, s \in {49, 110, MAX_PRICE_FOR_GE_TAX - 1} :
            LET buy == ScenarioBuy(q, b)
                sell == ScenarioSell(q, s)
            IN /\ \A pt \in IngestNow(<<buy, sell>>) \cup IngestNow(<<sell, buy>>) :
                      OneFlipMore(pt, q, b, s)
               /\ \A first \in IngestNow(<<buy>>) :
                      \A pt \in pt_ingest_transactions(first, DB, <<sell>>, now) :
                          OneFlipMore(pt, q, b, s)

\* five bought at 100 and sold at 110, ingested: one flip, finished, 540
\* received, 10 tax, profit 40; and the clock has moved on
C14_Witness ==
    /\ Len(pt_flips) = 1 /\ Len(pt_transactions) = 2
    /\ pt_flips[1].opened_qty = 5 /\ pt_flips[1].spent = 500 /\ pt_flips[1].closed_qty = 5
    /\ pt_flips[1].received_post_tax = 540 /\ pt_flips[1].tax_paid = 10
    /\ pt_flips[1].profit = 40 /\ pt_flips[1].status_ord = 2
    /\ OpenNow = {}


----------------------------------------------------------------------------
(* Full slots and stuck buys *)

LongTimeframe == 30     \* minutes: stale_seconds above STUCK_BUY_ABORT_SECONDS

\* both slots taken, or one; the buy of box 0 untraded or partly traded; the
\* 5 or the 30 minute timeframe
StuckOffers ==
    { <<Offer(0, "buy", 500, 5, 0, TRUE), Offer(1, "buy", 500, 5, 0, TRUE)>>,
      <<Offer(0, "buy", 500, 5, 2, TRUE), Offer(1, "buy", 500, 5, 0, TRUE)>>,
      <<Offer(0, "buy", 500, 5, 0, TRUE), Offer(1, "sell", 600, 5, 0, TRUE)>>,
      <<EmptyOffer(0), Offer(1, "buy", 500, 5, 0, TRUE)>> }
StuckMenu ==
    {[Status(offers, 10000, <<>>) EXCEPT !.timeframe = tf] :
        offers \in StuckOffers, tf \in {DEFAULT_TIMEFRAME, LongTimeframe}}

SuggestionStuck == Suggestion(StuckMenu, RecInstances, SugRecs, TRUE)

NextStuck == SuggestionStuck \/ Tick

SpecStuck == InitLedger /\ [][NextStuck]_vars

\* C15: every /suggestion request returns an action, also when all slots are
\* taken, no offer is done and a stuck zero-fill buy is eligible for an abort:
\* no request is left waiting for ever
C15_EveryRequestReturns == ~db_lock_held

\* the requests that do not return are those of Case B that find a stuck buy
\* to abort: no slot empty, no offer done, an open active untraded buy instance
\* older than STUCK_BUY_ABORT_SECONDS whose box has no abort in cooldown
C15_OnlyStuckBuyHangs ==
    [][(~db_lock_held /\ db_lock_held') =>
         /\ \A k \in Idx(last_offers') :
               ~offer_is_empty(last_offers'[k]) /\ ~offer_is_done(last_offers'[k])
         /\ \E i \in StuckBuys([DB EXCEPT !.oi = offer_instances'], now) :
               ~should_throttle_abort(DB, offer_instances'[i].box_id, now)]_vars

\* a request with all slots taken and no stuck buy yet, answered with a wait
C15_Witness ==
    /\ ~db_lock_held
    /\ last_reply.type = "wait" /\ last_reply.message = "no stuck-buy abort candidate"
    /\ \A k \in Idx(last_offers) : last_offers[k].active

----------------------------------------------------------------------------
(* Requests in which an exception is raised *)

\* the offers of SuggestOffers, and arrays with an entry that is not an object
FaultyOffers ==
    SuggestOffers
    \cup { <<Offer(0, "buy", 500, 5, 0, TRUE), NotObject>>,
           <<EmptyOffer(0), NotObject>> }
FaultyMenu == {Status(offers, 10000, <<>>) : offers \in FaultyOffers}

SuggestionFaulty == Suggestion(FaultyMenu, RecInstances, SugRecs, TRUE)

NextFaulty == SuggestionFaulty \/ Tick

SpecFaulty == InitLedger /\ [][NextFaulty]_vars

\* an exception is raised while the request is handled
Raises(db, status, t) ==
    \/ sync_raises(status.offers)
    \/ /\ maybe_handle_stale_offers(db, status, t) = NoAction
       /\ RepriceFrom(db, status, 1, t)

\* the ledgers the stale handler and the crash guard may read
Synced(db, status, t) ==
    IF sync_raises(status.offers) THEN {db} ELSE sync_offers_and_fills(db, status.offers, t)

RepriceDue(db, status, t) ==
    /\ ~sync_raises(status.offers)
    /\ maybe_handle_stale_offers(db, status, t) = NoAction
    /\ maybe_reprice_active_sell_raises(db, status, t)

\* C17 as stated: when the crash guard finds a sell to reprice, the reply is
\* an abort for the slot of that sell
C17_RepriceAborts ==
    \A status \in FaultyMenu : \A d \in sync_offers_and_fills(DB, status.offers, now) :
        RepriceDue(d, status, now) =>
            \E out \in AfterSync(d, buy_queue, status, now) : out.reply.type = "abort"

\* C17: when the crash guard finds a sell to reprice, no abort is returned
\* and none is recorded: the ledger is the one the sync left
C17_RepriceNeverAborts ==
    \A status \in FaultyMenu : \A d \in sync_offers_and_fills(DB, status.offers, now) :
        RepriceDue(d, status, now) =>
            \A out \in AfterSync(d, buy_queue, status, now) :
                out.reply.type = "wait" /\ out.db.recs = d.recs

\* the sell in slot 1 at 600 (high 520, low 500: desired 594, profit 83 a
\* piece) was due for a reprice, the abort of the stale handler being
\* throttled, and the request was answered by the wait
C17_Witness ==
    /\ last_reply = build_wait("server issue")
    /\ Len(last_offers) = 2
    /\ last_offers[2] = Offer(1, "sell", 600, 5, 0, TRUE)
    /\ should_throttle_abort(DB, 1, now)

----------------------------------------------------------------------------
(* The abort cooldown *)

CooldownStep == 60      \* seconds: a clock advance shorter than the cooldown
Horizon == 1380         \* seconds the clock runs, where the cooldown is followed

\* a done buy with every slot full (done-offer clear), a standing buy and a
\* standing sell (stale handler, crash guard), two standing buys at the long
\* timeframe (stuck buy)
CooldownMenu ==
    { Status(<<Offer(0, "buy", 500, 5, 5, TRUE), Offer(1, "sell", 600, 5, 0, TRUE)>>, 10000, <<>>),
      Status(<<Offer(0, "buy", 500, 5, 0, TRUE), EmptyOffer(1)>>, 10000, <<>>),
      Status(<<EmptyOffer(0), Offer(1, "sell", 600, 5, 0, TRUE)>>, 10000, <<>>),
      [Status(<<Offer(0, "buy", 500, 5, 0, TRUE), Offer(1, "buy", 500, 5, 0, TRUE)>>, 10000, <<>>)
          EXCEPT !.timeframe = LongTimeframe] }

SuggestionCooldown == Suggestion(CooldownMenu, RecInstances, SugRecs, FALSE)

\* the clock advances by a long step, and from then on by short steps
ShortTick ==
    /\ now' = IF now = StartTs THEN now + TickSeconds ELSE now + CooldownStep
    /\ now' <= StartTs + Horizon
    /\ UNCHANGED <<request_vars, ledger_vars, last_offers, engine_vars, pt_vars, cache_vars>>

NextCooldown == SuggestionCooldown \/ ShortTick

SpecCooldown == InitLedger /\ [][NextCooldown]_vars

\* the recorded aborts of a slot
AbortsOf(db, box_id) == {r \in Idx(db.recs) : db.recs[r].rec_type = "abort" /\ db.recs[r].box_id = box_id}

\* C18: no request is answered by an abort for a slot (nor builds one, on the
\* stuck-buy path) while an abort recorded for that slot is younger than
\* ABORT_COOLDOWN_SECONDS
C18_AbortCooldown ==
    \A status \in CooldownMenu : \A out \in suggestion(DB, buy_queue, status, now) :
        out.reply.type = "abort" =>
            \A r \in AbortsOf(DB, out.reply.box_id) :
                now - recommendations[r].issued_ts >= ABORT_COOLDOWN_SECONDS

\* a slot was aborted twice, the second abort two short steps (the cooldown)
\* after the first, and the second abort is the last reply
C18_Witness ==
    \E r, q \in Idx(recommendations) :
        /\ r < q
        /\ recommendations[r].rec_type = "abort" /\ recommendations[q].rec_type = "abort"
        /\ recommendations[r].box_id = recommendations[q].box_id
        /\ recommendations[q].issued_ts - recommendations[r].issued_ts = 2 * CooldownStep
        /\ last_reply.type = "abort"

----------------------------------------------------------------------------
(* The price cache: refresh_forever in its thread, snapshot() in the       *)
(* request threads. A table is modelled by the number of the refresh cycle *)
(* that published it; 0 is the value __init__ gave it.                     *)

MaxCycles == 3          \* iterations of refresh_forever

CacheUnchanged == UNCHANGED <<request_vars, now, ledger_vars, last_offers, engine_vars, pt_vars, trend_vars, last_call>>

\* `if not self.mapping: self._fetch_mapping()`: skipped once the mapping is
\* loaded; else the fetch publishes the mapping under the lock, or raises
FetchMapping ==
    /\ refresh_pc = "mapping"
    /\ \E ok \in BOOLEAN :
        /\ mapping' = IF mapping = 0 /\ ok THEN cycle ELSE mapping
        /\ refresh_pc' = IF mapping # 0 \/ ok THEN "latest" ELSE "failed"
    /\ UNCHANGED <<latest, volumes, last_refresh, cycle, snap>>
    /\ CacheUnchanged

\* _fetch_latest: the request or its decoding raises, or the new table is
\* published under the lock
FetchLatest ==
    /\ refresh_pc = "latest"
    /\ \E ok \in BOOLEAN :
        /\ latest' = IF ok THEN cycle ELSE latest
        /\ refresh_pc' = IF ok THEN "volumes" ELSE "failed"
    /\ UNCHANGED <<mapping, volumes, last_refresh, cycle, snap>>
    /\ CacheUnchanged

\* _fetch_volumes: the same for volumes
FetchVolumes ==
    /\ refresh_pc = "volumes"
    /\ \E ok \in BOOLEAN :
        /\ volumes' = IF ok THEN cycle ELSE volumes
        /\ refresh_pc' = IF ok THEN "stamp" ELSE "failed"
    /\ UNCHANGED <<mapping, latest, last_refresh, cycle, snap>>
    /\ CacheUnchanged

\* `with self._lock: self.last_refresh = time.time()`
Stamp ==
    /\ refresh_pc = "stamp"
    /\ last_refresh' = cycle
    /\ refresh_pc' = "done"
    /\ UNCHANGED <<mapping, latest, volumes, cycle, snap>>
    /\ CacheUnchanged

\* time.sleep(REFRESH_SECONDS), after the stamp or after the except clause,
\* and the next iteration begins
Sleep ==
    /\ refresh_pc \in {"done", "failed"}
    /\ cycle < MaxCycles
    /\ cycle' = cycle + 1
    /\ refresh_pc' = "mapping"
    /\ UNCHANGED <<mapping, latest, volumes, last_refresh, snap>>
    /\ CacheUnchanged

\* snapshot(): the four fields copied under the lock
snapshot == <<mapping, latest, volumes, last_refresh>>

Snapshot ==
    /\ snap' = snapshot
    /\ UNCHANGED <<mapping, latest, volumes, last_refresh, cycle, refresh_pc>>
    /\ CacheUnchanged

NextCache == FetchMapping \/ FetchLatest \/ FetchVolumes \/ Stamp \/ Sleep \/ Snapshot

SpecCache == InitLedger /\ [][NextCache]_vars

\* C19 as stated: the latest and the volumes a snapshot returns were
\* published by one refresh cycle (once volumes have been published at all)
C19_SnapshotOneCycle == snap[3] # 0 => snap[2] = snap[3]

\* C19: in a snapshot the volumes are never newer than the latest, the stamp
\* never newer than the volumes, and the mapping is the first one loaded
C19_SnapshotOrder ==
    /\ snap[4] <= snap[3]
    /\ snap[3] <= snap[2]
    /\ snap[1] <= snap[2] \/ snap[2] = 0
    /\ snap[1] # 0 => snap[1] = mapping

\* a snapshot taken between the two publications of the second cycle
C19_Witness == snap = <<1, 2, 1, 1>> /\ refresh_pc = "volumes"

\* C20 as stated: when a fetch of the cycle has failed, no field holds a value
\* of this cycle
C20_FailedCycleKeepsAll ==
    refresh_pc = "failed" =>
        mapping # cycle /\ latest # cycle /\ volumes # cycle /\ last_refresh # cycle

\* C20: when a fetch of the cycle has failed, volumes and last_refresh hold
\* their previous values, and latest holds a value of this cycle only if the
\* failed fetch is the one of the volumes
C20_FailedCycleKeepsStamp ==
    refresh_pc = "failed" => volumes # cycle /\ last_refresh # cycle

\* the volumes fetch of the second cycle has failed after latest was replaced
C20_Witness ==
    /\ refresh_pc = "failed"
    /\ cycle = 2
    /\ latest = 2
    /\ volumes = 1
    /\ last_refresh = 1

----------------------------------------------------------------------------
(* The trend cache. A trend is a float in [-0.25, 0.25]; the model holds   *)
(* it in units of 1/10000, exact for the feeds of the menu.                *)

TREND_CACHE_TTL_SECONDS == 180

\* what GET /timeseries gives: an error (exception, status other than 200,
\* a body that does not parse) or the mid prices of the first and the last
\* point of the window
FeedError == [ok |-> FALSE, m0 |-> 0, m1 |-> 0]
Feed(m0, m1) == [ok |-> TRUE, m0 |-> m0, m1 |-> m1]
TrendFeeds == {FeedError, Feed(100, 110), Feed(100, 200), Feed(100, 90)}

\* (m1 - m0) / m0 where both mids are positive, clamped to +-0.25
FeedTrend(feed) ==
    LET raw == IF feed.ok /\ feed.m0 > 0 /\ feed.m1 > 0
               THEN ((feed.m1 - feed.m0) * 10000) \div feed.m0 ELSE 0
    IN IF raw > 2500 THEN 2500 ELSE IF raw < -2500 THEN -2500 ELSE raw

\* the entry of a key is younger than the TTL
TrendHit(cache, key, t) == key \in DOMAIN cache /\ t - cache[key][2] < TREND_CACHE_TTL_SECONDS

\* TrendCache.get: the value returned and the cache it leaves
TrendCache_get(cache, item_id, horizon_minutes, feed, t) ==
    LET key == <<item_id, horizon_minutes>> IN
    IF item_id <= 0 \/ horizon_minutes <= 0 THEN [ret |-> 0, path |-> "none", cache |-> cache]
    ELSE IF TrendHit(cache, key, t) THEN [ret |-> cache[key][1], path |-> "hit", cache |-> cache]
    ELSE [ret |-> FeedTrend(feed),
          path |-> IF feed.ok THEN "fetched" ELSE "failed",
          cache |-> [k \in DOMAIN cache \cup {key} |->
                        IF k = key THEN <<FeedTrend(feed), t>> ELSE cache[k]]]

TrendItems == {0, ItemId}
TrendGet ==
    \E item_id \in TrendItems : \E feed \in TrendFeeds :
        LET r == TrendCache_get(trend_cache, item_id, LongTimeframe, feed, now) IN
        /\ trend_cache' = r.cache
        /\ trend_ret' = r.ret
        /\ trend_path' = r.path
        /\ UNCHANGED <<request_vars, now, ledger_vars, last_offers, engine_vars, pt_vars,
                       mapping, latest, volumes, last_refresh, cycle, refresh_pc, snap, last_call>>

\* the clock, with the trend cache left alone
TrendTick ==
    /\ now' = IF now = StartTs THEN now + TickSeconds ELSE now + CooldownStep
    /\ now' <= StartTs + Horizon
    /\ UNCHANGED <<request_vars, ledger_vars, last_offers, engine_vars, pt_vars, cache_vars>>

NextTrend == TrendGet \/ TrendTick

SpecTrend == InitLedger /\ [][NextTrend]_vars

TrendKey == <<ItemId, LongTimeframe>>

\* C21 as stated: a get whose fetch fails returns 0.0 and writes no entry:
\* after it, and until the next get, the key has no entry younger than the
\* TTL, so that the next get fetches again
C21_FailedFetchNotCached ==
    trend_path = "failed" => trend_ret = 0 /\ ~TrendHit(trend_cache, TrendKey, now)

\* C21: a get whose fetch fails returns 0.0 and stores (0.0, now) under the
\* key; every get of the key within the TTL returns that 0.0, whatever the
\* feed would give
C21_FailedFetchCached ==
    ~TrendHit(trend_cache, TrendKey, now) =>
        LET r == TrendCache_get(trend_cache, ItemId, LongTimeframe, FeedError, now) IN
        /\ r.ret = 0
        /\ r.cache[TrendKey] = <<0, now>>
        /\ \A feed \in TrendFeeds :
              TrendCache_get(r.cache, ItemId, LongTimeframe, feed, now).ret = 0

\* a 0.0 stored by a failed fetch is still served, two short steps later
C21_Witness ==
    /\ TrendKey \in DOMAIN trend_cache
    /\ trend_cache[TrendKey] = <<0, now - 2 * CooldownStep>>
    /\ trend_ret = 0
    /\ trend_path = "hit"

----------------------------------------------------------------------------
(* Helper functions called on their own *)

MaxAvgBuy == 150        \* largest small avg_buy tried
\* the small average costs, and some where the tax cap binds
AvgBuys == 0 .. MaxAvgBuy \cup {CostlyPrice, CostlyPrice + SELLER_TAX_CAP}

CallUnchanged ==
    UNCHANGED <<request_vars, now, ledger_vars, last_offers, engine_vars, pt_vars,
                mapping, latest, volumes, last_refresh, cycle, refresh_pc, snap, trend_vars>>

CallMinProfitable ==
    \E avg_buy \in AvgBuys :
        /\ last_call' = [fn |-> "min_profitable_sell_price", arg |-> avg_buy,
                         ret |-> min_profitable_sell_price(avg_buy)]
        /\ CallUnchanged

NextCalls == CallMinProfitable

SpecCalls == InitLedger /\ [][NextCalls]_vars

\* selling at p leaves at least 1 gp over the average cost, after tax
Profitable(p, avg_buy) == p - avg_buy - seller_tax(p) >= 1

----------------------------------------------------------------------------
(* Stale sells *)

\* a buy that fills and a sell that stands, a sell partly traded, a sell
\* priced below what is still profitable, and a client that asks for aborts only
DumpOffers ==
    { <<Offer(0, "buy", 500, 5, 0, TRUE), Offer(1, "sell", 600, 5, 0, TRUE)>>,
      <<Offer(0, "buy", 500, 5, 5, TRUE), Offer(1, "sell", 600, 5, 0, TRUE)>>,
      <<Offer(0, "buy", 500, 5, 5, TRUE), Offer(1, "sell", 600, 5, 2, TRUE)>>,
      <<EmptyOffer(0), Offer(1, "sell", 505, 5, 0, TRUE)>> }
DumpMenu ==
    {Status(offers, 10000, <<>>) : offers \in DumpOffers}
    \cup {[Status(offers, 10000, <<>>) EXCEPT !.requested = {"abort"}] : offers \in DumpOffers}

SuggestionDump == Suggestion(DumpMenu, MaxInstances, SugRecs, TRUE)

NextDump == SuggestionDump \/ Tick

SpecDump == InitLedger /\ [][NextDump]_vars

\* offer k of the status is active and has not traded for stale_seconds
IsStale(db, status, k, t) ==
    LET o == status.offers[k]
        inst == get_open_offer_instance(db, o.box_id)
    IN /\ o.active /\ o.status \in {"buy", "sell"} /\ o.item_id > 0 /\ o.price > 0
       /\ inst # 0
       /\ t - (IF db.oi[inst].last_trade_ts # NULL THEN db.oi[inst].last_trade_ts ELSE db.oi[inst].start_ts)
             >= stale_seconds(status.timeframe)

\* the price a stale sell of the item is moved to
DumpPrice(db, item_id) == Max2(Latest(item_id).low, min_profitable_sell_price(AvgCost(db, item_id)))

\* the first stale offer of the status is a sell that can be repriced down
DumpDue(db, status, k, t) ==
    LET o == status.offers[k] IN
    /\ IsStale(db, status, k, t)
    /\ \A j \in 1 .. k - 1 : ~IsStale(db, status, j, t)
    /\ o.status = "sell"
    /\ o.amount_total - o.amount_traded > 0
    /\ Allowed(status, "sell")
    /\ Latest(o.item_id).low > 0 /\ Latest(o.item_id).high > 0
    /\ OpenQty(db, o.item_id) > 0 /\ AvgCost(db, o.item_id) > 0
    /\ DumpPrice(db, o.item_id) < o.price

\* C23: when the first stale offer is a sell that can be repriced down, the
\* reply is the sell of the remaining quantity in that slot at
\* max(low, min_profitable_sell_price(avg_buy)), and it is recorded; lots
\* bought at 500 with low 500 give a sell at 511
C23_StaleSellFastDump ==
    \A status \in DumpMenu : \A d \in sync_offers_and_fills(DB, status.offers, now) :
      \A k \in Idx(status.offers) :
        DumpDue(d, status, k, now) =>
            \A out \in AfterSync(d, buy_queue, status, now) :
                LET o == status.offers[k] IN
                /\ ~out.hung
                /\ out.reply.type = "sell"
                /\ out.reply.box_id = o.box_id
                /\ out.reply.item_id = o.item_id
                /\ out.reply.price = DumpPrice(d, o.item_id)
                /\ out.reply.quantity = o.amount_total - o.amount_traded
                /\ out.db.recs = Append(d.recs, RecRow("sell", o.box_id, o.item_id, out.reply.price,
                                                        out.reply.quantity, now))
                /\ (AvgCost(d, o.item_id) = 500 /\ Latest(o.item_id).low = 500) => out.reply.price = 511

\* a stale sell at 600 of which 2 of 5 have traded was answered by the sell
\* of the remaining 3 at 511
C23_Witness ==
    /\ last_reply.type = "sell"
    /\ last_reply.message = "stale fast-dump"
    /\ last_reply.box_id = 1
    /\ last_reply.price = 511
    /\ last_reply.quantity = 3
    /\ Len(last_offers) = 2
    /\ last_offers[2] = Offer(1, "sell", 600, 5, 2, TRUE)

----------------------------------------------------------------------------
(* New buys *)

\* an offer of the item with the buy limit
OtherOffer(b, status, price, total, traded, active) ==
    [Offer(b, status, price, total, traded, active) EXCEPT !.item_id = OtherItem]

\* both slots empty; a buy of 40 of the limited item, standing and filled
BuyOffers ==
    { <<EmptyOffer(0), EmptyOffer(1)>>,
      <<OtherOffer(0, "buy", 100, 40, 0, TRUE), EmptyOffer(1)>>,
      <<OtherOffer(0, "buy", 100, 40, 40, TRUE), EmptyOffer(1)>> }
BuyCoins == {0, 10000}
BuyMenu ==
    {[Status(offers, coins, <<>>) EXCEPT !.blocked = blocked] :
        offers \in BuyOffers, coins \in BuyCoins, blocked \in {{}, {OtherItem}}}
    \cup {[Status(<<EmptyOffer(0), EmptyOffer(1)>>, 10000, <<>>) EXCEPT !.timeframe = LongTimeframe]}

SuggestionBuys == Suggestion(BuyMenu, RecInstances, MaxRecs, FALSE)

\* the clock advances by the buy limit window
WindowTick ==
    /\ now < StartTs + BUY_LIMIT_RESET_SECONDS
    /\ now' = now + BUY_LIMIT_RESET_SECONDS
    /\ UNCHANGED <<request_vars, ledger_vars, last_offers, engine_vars, pt_vars, cache_vars>>

NextBuys == SuggestionBuys \/ WindowTick

SpecBuys == InitLedger /\ [][NextBuys]_vars

\* the candidate filters of a buy action a, on the status and the ledger of
\* the request
PassesFilters(db, status, a, t) ==
    LET slots_open == Cardinality(EmptySlots(status))
        per_slot_budget == Max2(Min2((status.coins * 9) \div 10, BUY_BUDGET_CAP) \div slots_open, 1)
        profit_per == Max2(Latest(a.item_id).high - 1, 1) - a.price - seller_tax(Max2(Latest(a.item_id).high - 1, 1))
        bought == db_bought_qty_in_window(db, a.item_id, t - BUY_LIMIT_RESET_SECONDS)
    IN
    /\ a.item_id \notin status.blocked
    /\ a.item_id \notin active_offer_item_ids(status)
    /\ InTables(a.item_id)
    /\ a.price = Latest(a.item_id).low
    /\ a.quantity > 0
    /\ a.quantity * a.price <= per_slot_budget
    /\ BuyLimit(a.item_id) # NULL => a.quantity <= BuyLimit(a.item_id) - bought
    /\ profit_per >= Max2(1, min_margin_eff(status.timeframe))
    /\ profit_per * 10000 >= min_roi_eff(status.timeframe) * a.price
    /\ profit_per * 10 <= 4 * a.price

\* C24: with no buy queued before the request, the buy the request answers
\* with and every buy it leaves in the queue pass the candidate filters on
\* the status and the ledger of that request
C24_BuyPassesFilters ==
    buy_queue = <<>> =>
        \A status \in BuyMenu : \A d \in sync_offers_and_fills(DB, status.offers, now) :
            \A out \in AfterSync(d, buy_queue, status, now) :
                out.reply.type = "buy" =>
                    /\ PassesFilters(d, status, out.reply, now)
                    /\ \A k \in Idx(out.queue) : PassesFilters(d, status, out.queue[k], now)

\* 40 of the limited item were bought in the window and the next buy of it
\* was cut to the 20 the limit of 60 leaves
C24_Witness ==
    /\ last_reply.type = "buy"
    /\ last_reply.item_id = OtherItem
    /\ last_reply.quantity = 20
    /\ db_bought_qty_in_window(DB, OtherItem, now - BUY_LIMIT_RESET_SECONDS) = 40

----------------------------------------------------------------------------
(* Order of reconciliation, choice and recording within one request *)

\* both slots empty; a buy standing in slot 0, untraded or with 2 of 5
\* traded, beside an empty slot or an entry that is not an object
OrderOffers ==
    { <<EmptyOffer(0), EmptyOffer(1)>>,
      <<Offer(0, "buy", 500, 5, 0, TRUE), EmptyOffer(1)>>,
      <<Offer(0, "buy", 500, 5, 2, TRUE), EmptyOffer(1)>>,
      <<Offer(0, "buy", 500, 5, 0, TRUE), NotObject>>,
      <<Offer(0, "buy", 500, 5, 2, TRUE), NotObject>> }
OrderMenu == {Status(offers, 10000, <<>>) : offers \in OrderOffers}

SuggestionOrder == Suggestion(OrderMenu, RecInstances, SugRecs, TRUE)

NextOrder == SuggestionOrder \/ Tick

SpecOrder == InitLedger /\ [][NextOrder]_vars

\* the ledger holds what the snapshot shows of every offer that is an
\* object: no open instance for an empty slot, and for a standing offer the
\* open instance of its slot with the offer's fields and traded amount
Reconciled(db, offers) ==
    \A k \in Idx(offers) :
        LET o == offers[k]
            id == get_open_offer_instance(db, o.box_id)
        IN
        /\ (o # NotObject /\ o.status = "empty") => id = 0
        /\ (o.status \in {"buy", "sell"} /\ o.active) =>
              /\ id # 0
              /\ db.oi[id].status = o.status
              /\ db.oi[id].item_id = o.item_id
              /\ db.oi[id].price = o.price
              /\ db.oi[id].amount_total = o.amount_total
              /\ db.oi[id].last_traded = o.amount_traded

\* the newest recommendations row is the row of the action, still issued
Recorded(db, a) ==
    /\ db.recs # <<>>
    /\ db.recs[Len(db.recs)] = RecRow(a.type, a.box_id, a.item_id, a.price, a.quantity, a.issued_unix)

----------------------------------------------------------------------------
(* A cancelled buy *)

\* slot 0: a buy standing untraded, the same buy cancelled and still in the
\* slot, and the slot empty
CancelMenu ==
    { Offer(0, "buy", 500, 5, 0, TRUE),
      Offer(0, "buy", 500, 5, 0, FALSE),
      EmptyOffer(0) }

SyncCancel == Sync(CancelMenu, 1, RecInstances, TRUE, TRUE)

RecordCancel == RecordRecommendation({<<"buy", 0>>})

NextCancel == SyncCancel \/ RecordCancel \/ Tick

SpecCancel == InitLedger /\ [][NextCancel]_vars

\* the buy recommendations linked to an offer of the slot that never traded
ZeroFillBuys(db, box_id) ==
    {r \in Idx(db.recs) :
        /\ db.recs[r].rec_type = "buy"
        /\ db.recs[r].linked_offer_id # NULL
        /\ db.oi[db.recs[r].linked_offer_id].box_id = box_id
        /\ db.oi[db.recs[r].linked_offer_id].last_traded = 0}

\* C26 as stated: once the slot of a linked buy without fills is reported
\* empty, its recommendation is failed_cancelled
C26_CancelledEndsFailedCancelled ==
    last_offers = <<EmptyOffer(0)>> =>
        \A r \in ZeroFillBuys(DB, 0) : recommendations[r].outcome_status = "failed_cancelled"

\* C26, as far as it holds: a linked buy without fills whose instance is
\* still open and whose recommendation has not failed becomes
\* failed_cancelled by the snapshot that reports its slot empty
C26_OpenCancelledEndsFailedCancelled ==
    \A r \in ZeroFillBuys(DB, 0) :
        (/\ offer_instances[recommendations[r].linked_offer_id].done_ts = NULL
         /\ ~IsTerminal(recommendations[r].outcome_status)) =>
            \A d \in sync_offers_and_fills(DB, <<EmptyOffer(0)>>, now) :
                /\ d.recs[r].outcome_status = "failed_cancelled"
                /\ d.recs[r].closed_ts = now

\* the cancelled buy was seen inactive in its slot, then the slot was
\* reported empty within the timeout: the recommendation is still linked
C26_Witness ==
    /\ last_offers = <<EmptyOffer(0)>>
    /\ \E r \in ZeroFillBuys(DB, 0) :
          /\ recommendations[r].outcome_status = "linked"
          /\ offer_instances[recommendations[r].linked_offer_id].done_ts # NULL
          /\ now - recommendations[r].issued_ts < BUY_REC_TIMEOUT_SECONDS

----------------------------------------------------------------------------
(* Timed-out buys *)

\* C27 as stated: no buy_fills row carries the rec_id of a failed_no_fill
\* recommendation
C27_FailedNoFillHasNoFills ==
    \A f \in Idx(buy_fills) :
        buy_fills[f].rec_id # NULL =>
            recommendations[buy_fills[f].rec_id].outcome_status # "failed_no_fill"

\* C27, as far as it holds: a failed_no_fill recommendation has no
\* buy_first_fill_ts and was at least BUY_REC_TIMEOUT_SECONDS old when it
\* was closed
C27_FailedNoFillHasNoFirstFill ==
    \A r \in Idx(recommendations) :
        recommendations[r].outcome_status = "failed_no_fill" =>
            /\ recommendations[r].buy_first_fill_ts = NULL
            /\ recommendations[r].closed_ts - recommendations[r].issued_ts >= BUY_REC_TIMEOUT_SECONDS

\* the first fill of the linked buy was seen by the snapshot that timed the
\* recommendation out
C27_Witness ==
    \E f \in Idx(buy_fills) :
        /\ buy_fills[f].rec_id # NULL
        /\ recommendations[buy_fills[f].rec_id].outcome_status = "failed_no_fill"
        /\ recommendations[buy_fills[f].rec_id].closed_ts = buy_fills[f].fill_ts

----------------------------------------------------------------------------
(* Ingestion of one transaction, stopped between its commits *)

\* where the ingestion of a transaction ends: at its last commit; after the
\* commit of _pt_create_flip; after the commit of _pt_apply_buy or
\* _pt_apply_sell, with the INSERT into pt_transactions not committed (the
\* process is stopped, or the INSERT raises)
StopPoints == {"none", "created", "applied"}

\* the body of the loop of _pt_ingest_transactions, ended at `stop`
IngestOneStopped(pt, db, t, nowt, stop) ==
    IF \E k \in Idx(pt.txs) : pt.txs[k].tx_id = t.id THEN {pt}
    ELSE IF t.item_id <= 0 \/ t.price <= 0 \/ t.quantity = 0 THEN {pt}
    ELSE
    LET open == pt_get_open_flip(pt, t.item_id)
        found == IF open = {}
                 THEN {<<pt_create_flip(pt, t.item_id, t.time, IF t.quantity > 0 THEN 0 ELSE 1, nowt),
                         Len(pt.flips) + 1>>}
                 ELSE {<<pt, f>> : f \in open}
    IN UNION {IF stop = "created" \/ PtRaises(w[1].flips[w[2]], t.quantity, t.price) THEN {w[1]}
              ELSE {[flips |-> [w[1].flips EXCEPT ![w[2]] = flip],
                     txs |-> IF stop = "applied" THEN w[1].txs ELSE Append(w[1].txs, TxRow(t, w[2]))] :
                       flip \in PtApply(db, w[1].flips[w[2]], t.quantity, t.price, t.time)} : w \in found}

\* five bought at 100 or sold at 110
AtomicMenu(t) ==
    {[id |-> i, item_id |-> ItemId, quantity |-> k[1], price |-> k[2], time |-> t] :
        i \in 1 .. IngestIds, k \in {<<5, 100>>, <<-5, 110>>}}

\* a request with one transaction, sent for the first time or again
IngestStopped ==
    \E t \in AtomicMenu(now), stop \in StopPoints :
        \E pt \in IngestOneStopped(PT, DB, t, now, stop) : SetPT(pt)

NextAtomic == IngestStopped

SpecAtomic == InitLedger /\ [][NextAtomic]_vars

\* what the stored transactions of a flip bought and sold
BoughtOf(f) ==
    SumSeq([k \in Idx(pt_transactions) |->
              IF pt_transactions[k].flip_uuid = f /\ pt_transactions[k].quantity > 0
              THEN pt_transactions[k].quantity ELSE 0], 1)
SoldOf(f) ==
    SumSeq([k \in Idx(pt_transactions) |->
              IF pt_transactions[k].flip_uuid = f /\ pt_transactions[k].quantity < 0
              THEN -pt_transactions[k].quantity ELSE 0], 1)

\* C28 as stated: a flip is there with the row of a transaction applied to
\* it, and holds each stored transaction once and nothing else: what it sold
\* is what its stored sells sold, and what it spent is what its stored buys
\* bought (at 100) when it opened with a buy
C28_IngestAtomic ==
    \A f \in Idx(pt_flips) :
        /\ \E k \in Idx(pt_transactions) : pt_transactions[k].flip_uuid = f
        /\ pt_flips[f].closed_qty = SoldOf(f)
        /\ pt_flips[f].status_ord = 0 => pt_flips[f].spent = 100 * BoughtOf(f)

\* C28, as far as it holds: a flip holds at least what its stored
\* transactions bought and sold, and a transaction is stored at most once
C28_StoredOnceAndApplied ==
    /\ \A f \in Idx(pt_flips) :
          /\ pt_flips[f].closed_qty >= SoldOf(f)
          /\ pt_flips[f].opened_qty >= BoughtOf(f)
    /\ \A a \in Idx(pt_transactions), b \in Idx(pt_transactions) :
          pt_transactions[a].tx_id = pt_transactions[b].tx_id => a = b

\* the buy of transaction 1 was applied, the request ended before its row
\* was stored, and the buy was sent again: one row, ten bought
C28_Witness ==
    /\ Len(pt_flips) = 1 /\ Len(pt_transactions) = 1
    /\ pt_transactions[1].tx_id = 1 /\ pt_transactions[1].quantity = 5
    /\ pt_flips[1].opened_qty = 10 /\ pt_flips[1].spent = 1000

----------------------------------------------------------------------------
(* Packing of 64-bit values *)

\* stands for 1 << 63: the function compares with it and subtracts twice it
Bit63 == 64

\* _i64
i64(x) ==
    LET wrapped == IF x >= Bit63 THEN x - 2 * Bit63 ELSE x
    IN IF wrapped < -Bit63 THEN -Bit63 ELSE wrapped

\* the values tried: four times the range on either side
I64Inputs == (-4 * Bit63) .. (4 * Bit63)

CallI64 ==
    \E x \in I64Inputs :
        /\ last_call' = [fn |-> "_i64", arg |-> x, ret |-> i64(x)]
        /\ CallUnchanged

NextI64 == CallI64

SpecI64 == InitLedger /\ [][NextI64]_vars

\* x clamped into the signed range
Clamp64(x) == IF x > Bit63 - 1 THEN Bit63 - 1 ELSE IF x < -Bit63 THEN -Bit63 ELSE x

\* C29 as stated: _i64(x) is x clamped into [-2^63, 2^63 - 1]
C29_Clamps ==
    last_call.fn = "_i64" =>
        /\ last_call.ret = Clamp64(last_call.arg)
        /\ -Bit63 <= last_call.ret /\ last_call.ret <= Bit63 - 1

\* C29, as far as it holds: _i64 is the identity on the range, clamps below
\* it, and above it subtracts 2^64 once, which lands in the range for
\* x < 2^63 + 2^64 only
C29_ClampsBelowWrapsAbove ==
    last_call.fn = "_i64" =>
        LET x == last_call.arg IN
        /\ (-Bit63 <= x /\ x <= Bit63 - 1) => last_call.ret = x
        /\ x < -Bit63 => last_call.ret = -Bit63
        /\ x >= Bit63 => last_call.ret = x - 2 * Bit63
        /\ x < 3 * Bit63 => (-Bit63 <= last_call.ret /\ last_call.ret <= Bit63 - 1)

\* _i64(2^63) = -2^63
C29_Witness == last_call = [fn |-> "_i64", arg |-> Bit63, ret |-> -Bit63]

----------------------------------------------------------------------------
(* Offers with fields that do not parse *)

\* a buy of slot 0 untraded and with 2 traded; the offers of slot 1 whose
\* box_id does not parse: a buy with 2 traded and an empty slot; a buy of
\* slot 0 with 2 traded whose price, or whose amount_traded, does not parse
GoodOffers == {Offer(0, "buy", 500, 5, 0, TRUE), Offer(0, "buy", 500, 5, 2, TRUE)}
BadBoxOffers ==
    { [Offer(1, "buy", 501, 5, 2, TRUE) EXCEPT !.box_id = NotAnInt],
      [EmptyOffer(1) EXCEPT !.box_id = NotAnInt] }
BadFieldOffers ==
    { [Offer(0, "buy", 500, 5, 2, TRUE) EXCEPT !.price = NotAnInt],
      [Offer(0, "buy", 500, 5, 2, TRUE) EXCEPT !.amount_traded = NotAnInt],
      [Offer(0, "sell", 500, 5, 2, TRUE) EXCEPT !.item_id = NotAnInt],
      [Offer(0, "buy", 500, 5, 2, TRUE) EXCEPT !.amount_total = NotAnInt] }
ParseMenu == GoodOffers \cup BadBoxOffers \cup BadFieldOffers

SyncParse == Sync(ParseMenu, 1, RecInstances, TRUE, FALSE)

NextParse == SyncParse

SpecParse == InitLedger /\ [][NextParse]_vars

\* a field of the offer does not parse
HasUnparsed(o) ==
    \/ Unparsed(o.box_id) \/ Unparsed(o.item_id) \/ Unparsed(o.price)
    \/ Unparsed(o.amount_total) \/ Unparsed(o.amount_traded)

\* C30 as stated: a snapshot whose offers all have a field that does not
\* parse changes no offer instance, lot, fill, trade or recommendation
C30_UnparsedSkipped ==
    [][(last_offers' # <<>> /\ \A k \in Idx(last_offers') : HasUnparsed(last_offers'[k])) =>
         UNCHANGED ledger_vars]_vars

\* C30, as far as it holds: an offer whose item_id, price, amount_total or
\* amount_traded does not parse is passed over, alone and before or after
\* another offer; an offer whose box_id does not parse is reconciled as an
\* offer of slot 0
C30_UnparsedFieldSkipped ==
    /\ \A bad \in BadFieldOffers :
          /\ sync_offers_and_fills(DB, <<bad>>, now) = sync_offers_and_fills(DB, <<>>, now)
          /\ \A o \in GoodOffers \cup BadBoxOffers :
                /\ sync_offers_and_fills(DB, <<bad, o>>, now) = sync_offers_and_fills(DB, <<o>>, now)
                /\ sync_offers_and_fills(DB, <<o, bad>>, now) = sync_offers_and_fills(DB, <<o>>, now)
    /\ \A bad \in BadBoxOffers :
          sync_offers_and_fills(DB, <<bad>>, now)
              = sync_offers_and_fills(DB, <<[bad EXCEPT !.box_id = 0]>>, now)

\* the buy whose box_id does not parse has closed the untraded buy of slot 0
\* and booked its 2 as a fill of a new instance of slot 0
C30_Witness ==
    /\ Len(last_offers) = 1 /\ Unparsed(last_offers[1].box_id)
    /\ Len(offer_instances) = 2
    /\ offer_instances[1].box_id = 0 /\ offer_instances[1].price = 500 /\ offer_instances[1].done_ts # NULL
    /\ offer_instances[2].box_id = 0 /\ offer_instances[2].price = 501 /\ offer_instances[2].done_ts = NULL
    /\ Len(buy_fills) = 1 /\ buy_fills[1].offer_id = 2 /\ buy_fills[1].qty = 2

----------------------------------------------------------------------------
(* The lifetime of an offer at a slot *)

\* slot 0: a buy of 5 untraded, with 2 traded, fully traded, and cancelled
\* with 2 traded; and the slot empty
LifeMenu ==
    {Offer(0, "buy", 500, 5, n, TRUE) : n \in {0, 2, 5}}
    \cup {Offer(0, "buy", 500, 5, 2, FALSE), EmptyOffer(0)}

SyncLife == Sync(LifeMenu, 1, MaxInstances, TRUE, TRUE)

NextLife == SyncLife

SpecLife == InitLedger /\ [][NextLife]_vars

\* two snapshots show the same offer in the slot
SameOffer(a, b) ==
    /\ a.status \in {"buy", "sell"}
    /\ a.box_id = b.box_id
    /\ a.status = b.status
    /\ a.item_id = b.item_id
    /\ a.amount_total = b.amount_total

\* the step reconciles a snapshot that shows the offer of the snapshot before
ShowsSameOffer ==
    /\ Len(last_offers) = 1 /\ Len(last_offers') = 1
    /\ SameOffer(last_offers[1], last_offers'[1])

\* C31 as stated: while the slot keeps showing the same offer, also after
\* it became inactive or fully filled, no further instance row is created
C31_OneRowPerLifetime ==
    [][ShowsSameOffer => Len(offer_instances') = Len(offer_instances)]_vars

\* C31, as far as it holds: no row is created while the instance of the
\* offer is open; once it is closed, every snapshot that still shows the
\* offer creates one more row, closed at once when the offer is inactive
C31_OneRowWhileOpen ==
    [][ShowsSameOffer =>
         IF get_open_offer_instance(DB, 0) # 0
         THEN Len(offer_instances') = Len(offer_instances)
         ELSE /\ Len(offer_instances') = Len(offer_instances) + 1
              /\ ~last_offers'[1].active => offer_instances'[Len(offer_instances')].done_ts = now]_vars

\* the filled buy was shown three times: three rows of the same offer, each
\* closed, and the 5 bought booked once
C31_Witness ==
    /\ Len(offer_instances) = 3
    /\ \A i \in 1 .. 3 :
          /\ offer_instances[i].status = "buy" /\ offer_instances[i].amount_total = 5
          /\ offer_instances[i].last_traded = 5 /\ offer_instances[i].done_ts # NULL
    /\ last_offers = <<Offer(0, "buy", 500, 5, 5, TRUE)>>

----------------------------------------------------------------------------
(* Aborts and the inventory *)

\* an inventory of n stacks, the first of them of item `first`
Stacks(n, first) ==
    [k \in 1 .. n |-> [item_id |-> IF k = 1 THEN first ELSE OtherItem + k, amount |-> 1]]

\* empty; full, with and without the item of the offers; one stack short of
\* full, which the coins fill
SafeInvs ==
    { <<>>, Stacks(INVENTORY_SLOTS, ItemId), Stacks(INVENTORY_SLOTS, OtherItem + 1),
      Stacks(INVENTORY_SLOTS - 1, OtherItem + 1) }

\* both slots taken: a standing buy and a standing sell, and the buy filled
SafeOffers ==
    { <<Offer(0, "buy", 500, 5, 0, TRUE), Offer(1, "sell", 600, 5, 0, TRUE)>>,
      <<Offer(0, "buy", 500, 5, 5, TRUE), Offer(1, "sell", 600, 5, 0, TRUE)>> }
SafeMenu ==
    {[Status(offers, coins, inv) EXCEPT !.requested = requested] :
        offers \in SafeOffers, coins \in {0, 10000}, inv \in SafeInvs,
        requested \in {{}, {"abort"}}}

SuggestionSafe == Suggestion(SafeMenu, RecInstances, MaxRecs, TRUE)

NextSafe == SuggestionSafe \/ Tick

SpecSafe == InitLedger /\ [][NextSafe]_vars

\* the abort of an offer of `item` is inventory-safe for the status
AbortSafe(status, item) ==
    \/ Len(status.inv) + (IF status.coins > 0 THEN 1 ELSE 0) < INVENTORY_SLOTS
    \/ status.coins > 0
    \/ \E k \in Idx(status.inv) : status.inv[k].item_id = item

----------------------------------------------------------------------------
(* Buy fills and the traded amount of an instance *)

\* SELECT SUM(qty) FROM buy_fills WHERE offer_id = ?
FillsOf(db, offer_id) ==
    SumSeq([k \in Idx(db.bf) |-> IF db.bf[k].offer_id = offer_id THEN db.bf[k].qty ELSE 0], 1)

\* C33 as stated: after every reconciliation the buy fills of every buy
\* instance add up to the instance's last_traded
C33_FillsSumToLastTraded ==
    \A i \in Idx(offer_instances) :
        offer_instances[i].status = "buy" => FillsOf(DB, i) = offer_instances[i].last_traded

\* C33, as far as it holds: a reconciliation books the increase of
\* last_traded of the instances it finds, and nothing for a row it creates
C33_FillsSumSinceCreation ==
    [][\A i \in Idx(offer_instances') :
         offer_instances'[i].status = "buy" =>
            IF i \in Idx(offer_instances)
            THEN FillsOf(DB', i) - FillsOf(DB, i)
                   = offer_instances'[i].last_traded - offer_instances[i].last_traded
            ELSE FillsOf(DB', i) = 0]_vars

\* a buy first seen with 2 of 5 traded: last_traded is 2 and no fill is booked
C33_Witness ==
    /\ Len(offer_instances) = 1
    /\ offer_instances[1].status = "buy"
    /\ offer_instances[1].last_traded = 2
    /\ FillsOf(DB, 1) = 0

----------------------------------------------------------------------------
(* The database lock within one request *)

\* C34 as stated: on no path of /suggestion does the handler acquire
\* _db_lock while it holds it
C34_NeverAcquiredTwice ==
    \A status \in StuckMenu : \A out \in suggestion(DB, buy_queue, status, now) : ~out.hung

\* C34, as far as it holds: a lock taken twice is never released; no later
\* request is answered and nothing more is recorded
C34_HeldForEver ==
    [][db_lock_held => (db_lock_held' /\ UNCHANGED <<ledger_vars, buy_queue, last_reply>>)]_vars

\* the request that found a stuck buy in full slots holds the lock and is
\* not answered
C34_Witness ==
    /\ db_lock_held
    /\ last_reply = NoReply
    /\ Len(last_offers) > 1
    /\ \A k \in Idx(last_offers) : last_offers[k].active

----------------------------------------------------------------------------
(* Sell-only requests and the queue *)

\* both slots empty, or one: with and without sell_only
SellOnlyOffers ==
    { <<EmptyOffer(0), EmptyOffer(1)>>,
      <<OtherOffer(0, "buy", 100, 40, 0, TRUE), EmptyOffer(1)>> }
SellOnlyMenu ==
    {[Status(offers, 10000, <<>>) EXCEPT !.sell_only = sell_only] :
        offers \in SellOnlyOffers, sell_only \in BOOLEAN}

SuggestionSellOnly == Suggestion(SellOnlyMenu, RecInstances, SugRecs, TRUE)

NextSellOnly == SuggestionSellOnly \/ Tick

SpecSellOnly == InitLedger /\ [][NextSellOnly]_vars

\* C37 as stated: a request with sell_only is never answered with a buy,
\* whatever the queue holds
C37_SellOnlyNeverBuys ==
    \A status \in SellOnlyMenu : \A out \in suggestion(DB, buy_queue, status, now) :
        status.sell_only => out.reply.type # "buy"

\* C37, as far as it holds: a request with sell_only is answered with a buy
\* only out of the queue: with the head of the queue, moved to the empty
\* slot, and never with the queue empty
C37_SellOnlyBuysQueuedOnly ==
    \A status \in SellOnlyMenu : \A out \in suggestion(DB, buy_queue, status, now) :
        (status.sell_only /\ out.reply.type = "buy") =>
            /\ buy_queue # <<>>
            /\ out.queue = Tail(buy_queue)
            /\ [out.reply EXCEPT !.box_id = buy_queue[1].box_id] = buy_queue[1]

\* a sell-only request was answered with the buy that an earlier request
\* had queued
C37_Witness ==
    /\ last_items.sell_only
    /\ last_reply.type = "buy"
    /\ buy_queue = <<>>
    /\ Len(recommendations) = 2

----------------------------------------------------------------------------
(* Polling the flips *)

\* five bought at 100 and two sold at 110, dated by the client: now, or at
\* the start of the clock
DeltaMenu(t) ==
    {[id |-> i, item_id |-> ItemId, quantity |-> k[1], price |-> k[2], time |-> time] :
        i \in 1 .. IngestIds, k \in {<<5, 100>>, <<-2, 110>>}, time \in {t, StartTs}}

IngestDelta == Ingest({<<a>> : a \in DeltaMenu(now)})

\* _pt_fetch_flips_delta for one account: the rows with updated_time > last_t,
\* and max(now, their updated_time)
MaxTime(t, pt, F) ==
    IF \E f \in F : pt.flips[f].updated_time > t
    THEN CHOOSE u \in {pt.flips[f].updated_time : f \in F} :
            \A f \in F : pt.flips[f].updated_time <= u
    ELSE t
pt_fetch_flips_delta(pt, last_t, t) ==
    LET F == {f \in Idx(pt.flips) : pt.flips[f].updated_time > last_t} IN
    [new_time |-> MaxTime(t, pt, F), flips |-> F]

\* the client polls with the new_time of its last poll, or 0; `table` is
\* pt_flips as it was when the poll was answered
ClientFlipsDelta ==
    LET last_t == IF last_call.fn = "_pt_fetch_flips_delta" THEN last_call.ret.new_time ELSE 0
        ret == pt_fetch_flips_delta(PT, last_t, now)
    IN /\ ~db_lock_held
       /\ last_call' = [fn |-> "_pt_fetch_flips_delta", arg |-> last_t,
                        ret |-> [new_time |-> ret.new_time, flips |-> ret.flips, table |-> pt_flips]]
       /\ CallUnchanged

NextDelta == IngestDelta \/ ClientFlipsDelta \/ Tick

SpecDelta == InitLedger /\ [][NextDelta]_vars

\* the flips created or changed since the poll before
ChangedSincePoll ==
    {f \in Idx(pt_flips) :
        f \notin Idx(last_call.ret.table) \/ pt_flips[f] # last_call.ret.table[f]}

\* the step is a poll that follows a poll
PollAfterPoll ==
    /\ last_call.fn = "_pt_fetch_flips_delta"
    /\ last_call' # last_call

\* C38 as stated: a poll with the new_time of the poll before returns every
\* flip an ingest has changed in between, whatever time the client gave its
\* transactions
C38_ChangedFlipReturned ==
    [][PollAfterPoll => ChangedSincePoll \subseteq last_call'.ret.flips]_vars

\* C38, as far as it holds: the poll returns the flips changed in between
\* whose transaction is dated after the new_time of the poll before, and
\* only those
C38_ReturnedWhenDatedLater ==
    [][PollAfterPoll =>
         last_call'.ret.flips
            = {f \in ChangedSincePoll : pt_flips[f].updated_time > last_call.ret.new_time}]_vars

\* a poll with the new_time of the poll before returned a flip
C38_Witness ==
    /\ last_call.fn = "_pt_fetch_flips_delta"
    /\ last_call.arg >= StartTs
    /\ last_call.ret.flips # {}

----------------------------------------------------------------------------
(* Completed recommendations and the lots of their buys *)

\* a recommended buy of 5 in box 0 that fills in two parts, and a sell of 2
\* in box 1
LateMenu ==
    {Offer(0, "buy", 100, 5, t, TRUE) : t \in {0, 2, 5}}
    \cup {Offer(1, "sell", 130, 2, t, TRUE) : t \in {0, 2}}

SyncLate == Sync(LateMenu, 1, MaxInstances, FALSE, TRUE)

RecordLate == RecordRecommendation({<<"buy", 0>>})

NextLate == SyncLate \/ RecordLate

SpecLate == InitLedger /\ [][NextLate]_vars

\* the lots of the buys of recommendation r that are not sold out
OpenLotsOf(db, r) == {i \in Idx(db.lots) : db.lots[i].buy_rec_id = r /\ db.lots[i].qty_remaining > 0}

\* C39 as stated: no lot with qty_remaining > 0 carries the buy_rec_id of a
\* completed recommendation
C39_NoOpenLotOfCompleted ==
    \A r \in Idx(recommendations) :
        recommendations[r].outcome_status = "completed" => OpenLotsOf(DB, r) = {}

\* C39, as far as it holds: a recommendation has no open lot and a sale when
\* it becomes completed, and it stays completed
C39_NoOpenLotWhenCompleted ==
    [][\A r \in Idx(recommendations) :
         /\ (recommendations[r].outcome_status # "completed"
               /\ recommendations'[r].outcome_status = "completed")
              => (OpenLotsOf(DB', r) = {} /\ recommendations'[r].last_sell_ts # NULL)
         /\ recommendations[r].outcome_status = "completed"
              => recommendations'[r].outcome_status = "completed"]_vars

\* the recommended buy is completed: 2 bought and sold
C39_Witness ==
    /\ Len(recommendations) = 1
    /\ recommendations[1].outcome_status = "completed"
    /\ lots = <<>>
    /\ Len(realized_trades) = 1 /\ realized_trades[1].buy_rec_id = 1 /\ realized_trades[1].qty = 2

----------------------------------------------------------------------------
(* What a fast dump nets *)

\* a sell at 600 of goods bought at 500, standing until it is stale
NetOffers ==
    { <<Offer(0, "buy", 500, 5, 0, TRUE), Offer(1, "sell", 600, 5, 0, TRUE)>>,
      <<Offer(0, "buy", 500, 5, 5, TRUE), Offer(1, "sell", 600, 5, 0, TRUE)>> }
NetMenu == {Status(offers, 10000, <<>>) : offers \in NetOffers}

SuggestionNet == Suggestion(NetMenu, RecInstances, MaxRecs, TRUE)

\* the avg_buy the function is to be called with
InitNet ==
    \E avg_buy \in AvgBuys :
        /\ InitBase
        /\ last_call = [fn |-> "none", arg |-> avg_buy, ret |-> 0]

CallNet ==
    /\ last_call.fn = "none"
    /\ last_call' = [fn |-> "min_profitable_sell_price", arg |-> last_call.arg,
                     ret |-> min_profitable_sell_price(last_call.arg)]
    /\ CallUnchanged

NextNet == CallNet \/ SuggestionNet \/ Tick

SpecNet == InitNet /\ [][NextNet]_vars

\* what a unit sold at p nets after tax against avg_buy
NetPerUnit(p, avg_buy) == p - avg_buy - seller_tax(p)

\* C40: min_profitable_sell_price(avg_buy) nets at least 1 gp against every
\* avg_buy > 0 tried, and so does the price of every stale fast-dump sell the
\* handler answers with, against the average cost of the open lots
C40_FastDumpNetsOne ==
    /\ (last_call.fn = "min_profitable_sell_price" /\ last_call.arg > 0)
          => NetPerUnit(last_call.ret, last_call.arg) >= 1
    /\ \A status \in NetMenu : \A out \in suggestion(DB, buy_queue, status, now) :
          (out.reply.type = "sell" /\ out.reply.message = "stale fast-dump")
              => /\ AvgCost(out.db, out.reply.item_id) > 0
                 /\ NetPerUnit(out.reply.price, AvgCost(out.db, out.reply.item_id)) >= 1

\* a stale sell was answered with a fast dump at 511, the lowest price that
\* nets 1 gp against the average cost of 500; and the price for an avg_buy
\* of 99 is 102, which nets exactly 1
C40_Witness ==
    /\ last_reply.type = "sell"
    /\ last_reply.message = "stale fast-dump"
    /\ last_reply.price = 511
    /\ AvgCost(DB, last_reply.item_id) = 500
    /\ last_call.fn = "min_profitable_sell_price"
    /\ last_call.arg = 99 /\ last_call.ret = 102

----------------------------------------------------------------------------
(* Requests handled at the same time *)

MaxReplies == 3         \* actions answered, where requests are followed step by step

\* the action with its rec_id: uuid4().hex of the builders
WithRecId(action, n) ==
    [f \in DOMAIN action \cup {"rec_id"} |-> IF f = "rec_id" THEN n ELSE action[f]]

InProgress == {t \in Threads : requests[t].pc # "idle"}

RequestUnchanged == UNCHANGED <<now, last_offers, last_items, last_reply, pt_vars, cache_vars>>

\* a thread takes a request: sync_offers_and_fills, under _db_lock
ReqSync(menu, m, t) ==
    \E status \in menu : \E db \in Synced(DB, status, now) :
        /\ requests[t].pc = "idle"
        /\ ~db_lock_held
        /\ Len(replies) + Cardinality(InProgress) < MaxReplies
        /\ WithinBounds(db, m)
        /\ SetLedger(db)
        /\ requests' = [requests EXCEPT ![t] = [pc |-> "stale", status |-> status, led |-> <<>>,
                                                 action |-> NoReply]]
        /\ UNCHANGED <<buy_queue, db_lock_held, replies, next_rec>>
        /\ RequestUnchanged

\* maybe_handle_stale_offers, under _db_lock, the throttle check included;
\* then the crash guard, active_offer_item_ids and load_ledger
ReqStale(t) ==
    LET status == requests[t].status
        stale == maybe_handle_stale_offers(DB, status, now)
        raised == maybe_reprice_active_sell_raises(DB, status, now)
                     \/ active_offer_item_ids_raises(status.offers)
    IN /\ requests[t].pc = "stale"
       /\ ~db_lock_held
       /\ requests' = [requests EXCEPT ![t] =
             IF stale # NoAction
             THEN [@ EXCEPT !.pc = "record", !.action = WithRecId(stale, next_rec + 1)]
             ELSE IF raised THEN IdleRequest
             ELSE [@ EXCEPT !.pc = "choose", !.led = buy_queue]]
       /\ next_rec' = IF stale # NoAction THEN next_rec + 1 ELSE next_rec
       /\ UNCHANGED <<ledger_vars, buy_queue, db_lock_held, replies>>
       /\ RequestUnchanged

\* the priorities, on the ledger as the request loaded it: the throttle check
\* of Case A and Case B under _db_lock, save_ledger where a buy is answered
ReqChoose(t) ==
    /\ requests[t].pc = "choose"
    /\ ~db_lock_held
    /\ \E out \in Priorities(DB, requests[t].led, requests[t].status, now) :
        LET popped == out.reply.type = "buy" /\ requests[t].led # <<>>
            new_buys == out.reply.type = "buy" /\ ~popped
            built == out.reply.type \in {"sell", "abort"} \/ new_buys
            action == IF built THEN WithRecId(out.reply, next_rec + 1) ELSE out.reply
            queue == IF new_buys
                     THEN [k \in Idx(out.queue) |-> WithRecId(out.queue[k], next_rec + 1 + k)]
                     ELSE out.queue
        IN /\ db_lock_held' = out.hung
           /\ buy_queue' = IF out.reply.type = "buy" THEN queue ELSE buy_queue
           /\ next_rec' = next_rec + (IF built THEN 1 ELSE 0) + (IF new_buys THEN Len(queue) ELSE 0)
           /\ requests' = [requests EXCEPT ![t] =
                 IF out.hung THEN [@ EXCEPT !.pc = "hung", !.action = action]
                 ELSE IF out.reply.type \in {"buy", "sell", "abort"}
                 THEN [@ EXCEPT !.pc = "record", !.led = queue, !.action = action]
                 ELSE IdleRequest]
           /\ UNCHANGED <<ledger_vars, replies>>
           /\ RequestUnchanged

\* record_recommendation, under _db_lock (INSERT OR IGNORE: a rec_id that is
\* recorded is not recorded again), and the reply
ReqRecord(t) ==
    LET action == requests[t].action
        recorded == \E k \in Idx(replies) : replies[k].rec_id = action.rec_id
    IN /\ requests[t].pc = "record"
       /\ ~db_lock_held
       /\ SetLedger(IF recorded THEN DB ELSE record_recommendation(DB, action))
       /\ replies' = Append(replies, action)
       /\ requests' = [requests EXCEPT ![t] = IdleRequest]
       /\ UNCHANGED <<buy_queue, db_lock_held, next_rec>>
       /\ RequestUnchanged

\* both slots empty, or one
QueueMenu ==
    { Status(<<EmptyOffer(0), EmptyOffer(1)>>, 10000, <<>>),
      Status(<<OtherOffer(0, "buy", 100, 40, 0, TRUE), EmptyOffer(1)>>, 10000, <<>>) }

NextQueue ==
    \E t \in Threads :
        ReqSync(QueueMenu, RecInstances, t) \/ ReqStale(t) \/ ReqChoose(t) \/ ReqRecord(t)

SpecQueue == InitLedger /\ [][NextQueue]_vars

\* where the action of rec_id n is: answered, queued, or about to be answered
Holders(n) ==
    Cardinality({k \in Idx(replies) : replies[k].rec_id = n})
    + Cardinality({k \in Idx(buy_queue) : buy_queue[k].rec_id = n})
    + Cardinality({t \in Threads : requests[t].pc \in {"record", "hung"} /\ requests[t].action.rec_id = n})

\* C35 as stated: every action built is answered once or waits in the queue:
\* none is handed out twice, none is lost
C35_QueuedHandedOutOnce == \A n \in 1 .. next_rec : Holders(n) = 1

\* C35, as far as it holds: a request that finds the queue as it loaded it
\* when it answers hands out no action twice and loses none
C35_OnceWhenQueueUntouched ==
    [][\A t \in Threads :
         (/\ requests[t].pc = "choose" /\ requests'[t].pc # "choose"
          /\ requests[t].led = buy_queue
          /\ C35_QueuedHandedOutOnce)
            => \A n \in 1 .. next_rec' : Holders(n)' = 1]_vars

\* a request answered with the queued buy, the queue as it was loaded
C35_Witness ==
    /\ Len(replies) = 2
    /\ replies[1].type = "buy" /\ replies[2].type = "buy"
    /\ replies[1].rec_id = 1 /\ replies[2].rec_id = 2
    /\ buy_queue = <<>>
    /\ InProgress = {}

----------------------------------------------------------------------------
(* The abort cooldown, requests handled at the same time *)

\* every slot full: a done buy (done-offer clear), or a standing buy and a
\* standing sell
ThrottleMenu ==
    { Status(<<Offer(0, "buy", 500, 5, 5, TRUE), Offer(1, "sell", 600, 5, 0, TRUE)>>, 10000, <<>>),
      Status(<<Offer(0, "buy", 500, 5, 0, TRUE), Offer(1, "sell", 600, 5, 0, TRUE)>>, 10000, <<>>) }

NextThrottle ==
    \E t \in Threads :
        ReqSync(ThrottleMenu, MaxInstances, t) \/ ReqStale(t) \/ ReqChoose(t) \/ ReqRecord(t)

SpecThrottle == InitLedger /\ [][NextThrottle]_vars

\* C36 as stated: two aborts recorded for one slot are at least
\* ABORT_COOLDOWN_SECONDS apart
C36_AbortsCooldownApart ==
    \A i, j \in Idx(recommendations) :
        (/\ i < j
         /\ recommendations[i].rec_type = "abort" /\ recommendations[j].rec_type = "abort"
         /\ recommendations[i].box_id = recommendations[j].box_id)
            => recommendations[j].issued_ts - recommendations[i].issued_ts >= ABORT_COOLDOWN_SECONDS

\* C36, as far as it holds: a request that makes its throttle check once an
\* abort of the slot is recorded builds no abort for the slot within the
\* cooldown
C36_ThrottledOnceRecorded ==
    \A status \in ThrottleMenu : \A out \in AfterSync(DB, buy_queue, status, now) :
        out.reply.type = "abort" =>
            \A r \in Idx(recommendations) :
                (recommendations[r].rec_type = "abort" /\ recommendations[r].box_id = out.reply.box_id)
                    => now - recommendations[r].issued_ts >= ABORT_COOLDOWN_SECONDS

\* an abort of slot 0 is recorded, and a request that reports the done buy
\* of the slot is about to make its throttle check
C36_Witness ==
    /\ \E r \in Idx(recommendations) :
          /\ recommendations[r].rec_type = "abort" /\ recommendations[r].box_id = 0
          /\ now - recommendations[r].issued_ts < ABORT_COOLDOWN_SECONDS
    /\ \E t \in Threads :
          /\ requests[t].pc = "choose"
          /\ ~requests[t].status.offers[1].active
====
